---- MODULE Spec2Model ----
(***************************************************************************)
(* A model of the TAC generator (src/tac_generator.py) and of the TAC      *)
(* optimizer (src/tac_optimizer.py) of the for-loop compiler.              *)
(*                                                                         *)
(* Python values that occur in an operand position of a quadruple are      *)
(* modelled by one record shape, so that any two operands can be compared: *)
(*   None            [k |-> "none", n |-> 0, d |-> 1, s |-> ""]            *)
(*   int / float     [k |-> "num",  n |-> p, d |-> q, s |-> ""]  (p/q in   *)
(*                   lowest terms, q > 0; Python's 2 == 2.0 is equality)   *)
(*   str             [k |-> "str",  n |-> 0, d |-> 1, s |-> the string]    *)
(* Instruction dicts live in a heap (a sequence, the address is the index) *)
(* and a list is a sequence of addresses, so that aliasing, copying and    *)
(* in-place mutation of the dicts are visible.                             *)
(***************************************************************************)
EXTENDS Integers, Sequences, FiniteSets, TLC

VARIABLES
    ast,            \* the Program node handed to TACGenerator.generate
    generator,      \* the TACGenerator object
    stmt_idx,       \* the statement of the Program body that visit() reaches next
    pc,             \* position of the run: "generate", "generated", "input",
                    \* "folded", "propagated", "eliminated", "reduced", "done", "raised";
                    \* in the front end "source", "lexical_error", "tokens", "no_tokens",
                    \* "syntax_error", "parsed", "semantic_errors"
    heap,           \* the instruction dicts allocated so far
    original_tac,   \* TACOptimizer.original_tac: the list the caller passed in
    input_copy,     \* the caller's own view of the input instructions at the call
    arg_tac,        \* the parameter `tac` of the pass that ran last
    tac,            \* the local `tac` of optimize(): the list the last pass returned
    tac_obj,        \* identity of the list object `tac` is bound to (1 = the input list)
    optimized_tac,  \* TACOptimizer.optimized_tac
    source,         \* the source text handed to tokenize
    tokens,         \* the token list: what tokenize returned, or what the parser is given
    parser,         \* the SyntaxAnalyzer object
    semantic        \* the SemanticAnalyzer object

\* the front end: lexer, parser and semantic analyzer
front == <<source, tokens, parser, semantic>>

vars == <<ast, generator, stmt_idx, pc, heap, original_tac, input_copy, arg_tac, tac,
          tac_obj, optimized_tac, source, tokens, parser, semantic>>

---------------------------------------------------------------------------
(* Operands *)

None == [k |-> "none", n |-> 0, d |-> 1, s |-> ""]

Str(x) == [k |-> "str", n |-> 0, d |-> 1, s |-> x]

Abs(a) == IF a < 0 THEN -a ELSE a

RECURSIVE Gcd(_, _)
Gcd(a, b) == IF b = 0 THEN a ELSE Gcd(b, a % b)

\* the number p/q (q # 0) in lowest terms with a positive denominator
Rat(p, q) ==
    LET g == Gcd(Abs(p), Abs(q))
        sgn == IF q < 0 THEN -1 ELSE 1
    IN [k |-> "num", n |-> sgn * (p \div g), d |-> Abs(q) \div g, s |-> ""]

Num(a) == [k |-> "num", n |-> a, d |-> 1, s |-> ""]

\* isinstance(v, (int, float))
IsNumber(v) == v.k = "num"

\* isinstance(v, str)
IsStr(v) == v.k = "str"

\* Python truthiness of an operand: None, 0, 0.0 and "" are false
Truthy(v) == \/ (v.k = "num" /\ v.n # 0)
             \/ (v.k = "str" /\ v.s # "")

Instr(op, arg1, arg2, result) ==
    [op |-> op, arg1 |-> arg1, arg2 |-> arg2, result |-> result]

\* the instructions a list of addresses denotes
Deref(h, l) == [i \in 1..Len(l) |-> h[l[i]]]

---------------------------------------------------------------------------
(* AST nodes, as the parser builds them (src/Syntax_analyzer.py).  A Number *)
(* node holds the token's lexeme, a str.  An absent child is NoNode.        *)

NoNode == [type |-> "None"]

Number(value) == [type |-> "Number", value |-> value]

Variable(name) == [type |-> "Variable", name |-> name]

BinaryExpr(op, left, right) ==
    [type |-> "BinaryExpr", op |-> op, left |-> left, right |-> right]

UnaryExpr(op, operand) == [type |-> "UnaryExpr", op |-> op, operand |-> operand]

Declaration(var_type, var_name) ==
    [type |-> "Declaration", var_type |-> var_type, var_name |-> var_name]

Assignment(var, expr) == [type |-> "Assignment", var |-> var, expr |-> expr]

Condition(left, op, right) ==
    [type |-> "Condition", left |-> left, op |-> op, right |-> right]

ForLoop(init, condition, update, body) ==
    [type |-> "ForLoop", init |-> init, condition |-> condition,
     update |-> update, body |-> body]

Program(body) == [type |-> "Program", body |-> body]

\* the nodes parse_factor builds for the other literals, and a Declaration
\* with an initializer
StringLiteral(value) == [type |-> "StringLiteral", value |-> value]

CharLiteral(value) == [type |-> "CharLiteral", value |-> value]

BooleanLiteral(value) == [type |-> "BooleanLiteral", value |-> value]

DeclarationInit(var_type, var_name, initializer) ==
    [type |-> "Declaration", var_type |-> var_type, var_name |-> var_name,
     initializer |-> initializer]

---------------------------------------------------------------------------
(* The objects of the front end as their constructors leave them *)

\* SyntaxAnalyzer.__init__: pos = 0.  `raised` and `error` hold the
\* SyntaxError that ended parse(), if one did.
NewSyntaxAnalyzer ==
    [pos |-> 0, raised |-> FALSE, error |-> [expected |-> "", found |-> "", position |-> 0]]

\* SemanticAnalyzer.__init__.  `visited` is the list of the nodes visit() has
\* dispatched to a visitor, in order.
NewSemanticAnalyzer ==
    [symbol_table |-> <<>>, errors |-> <<>>, declared_vars |-> {},
     current_scope_level |-> 0, visited |-> <<>>]

\* a run that starts behind the front end
NoFront ==
    /\ source = ""
    /\ tokens = <<>>
    /\ parser = NewSyntaxAnalyzer
    /\ semantic = NewSemanticAnalyzer

---------------------------------------------------------------------------
(* TACGenerator.  g is the generator object: temp_count, label_count,      *)
(* tac_code, string_literals, string_label_count, and `returned`, the      *)
(* names new_temp and new_label have returned so far, in order.  A visitor *)
(* yields the generator after the visit and the value it returns (res).    *)

NewGenerator ==
    [temp_count |-> 0, label_count |-> 0, tac_code |-> <<>>,
     string_literals |-> <<>>, string_label_count |-> 0, returned |-> <<>>]

\* new_temp without the increment of temp_count
new_temp_no_increment(g) ==
    LET temp_name == "t" \o ToString(g.temp_count)
    IN [g |-> [g EXCEPT !.returned = Append(@, temp_name)], res |-> Str(temp_name)]

new_temp(g) ==
    LET temp_name == "t" \o ToString(g.temp_count)
    IN [g |-> [g EXCEPT !.temp_count = @ + 1, !.returned = Append(@, temp_name)],
        res |-> Str(temp_name)]

new_label(g) ==
    LET label_name == "L" \o ToString(g.label_count)
    IN [g |-> [g EXCEPT !.label_count = @ + 1, !.returned = Append(@, label_name)],
        res |-> Str(label_name)]

\* string_value[1:-1]
StripQuotes(v) == IF Len(v) >= 2 THEN SubSeq(v, 2, Len(v) - 1) ELSE ""

new_string_label(g, string_value) ==
    LET actual_string == StripQuotes(string_value)
        label == "_str" \o ToString(g.string_label_count)
    IN IF actual_string \notin DOMAIN g.string_literals
       THEN [g |-> [g EXCEPT !.string_literals = @ @@ (actual_string :> label),
                             !.string_label_count = @ + 1],
             res |-> Str(label)]
       ELSE [g |-> g, res |-> Str(g.string_literals[actual_string])]

add_instruction(g, op, arg1, arg2, result) ==
    [g EXCEPT !.tac_code = Append(@, Instr(op, arg1, arg2, result))]

\* isinstance(v, str) and v.startswith('_str')
IsStrLabel(v) == IsStr(v) /\ Len(v.s) >= 4 /\ SubSeq(v.s, 1, 4) = "_str"

BinaryOpcode(op, left_result, right_result) ==
    CASE op = "+" -> IF IsStrLabel(left_result) \/ IsStrLabel(right_result)
                     THEN "CONCAT" ELSE "ADD"
      [] op = "-" -> "SUB"
      [] op = "*" -> "MUL"
      [] op = "/" -> "DIV"
      [] OTHER -> "none"

\* Python runs its statements in order.  TLC evaluates a LET definition when
\* it is first needed, nested in whatever needs it; InOrder has the values of
\* `statements` evaluated one after the other before `value` is.
InOrder(statements, value) == IF Len(statements) >= 0 THEN value ELSE value

RECURSIVE visit(_, _)
RECURSIVE visit_list(_, _, _, _)

\* visit() on a list: every item in order, the results that are not None
visit_list(g, node, i, results) ==
    IF i > Len(node) THEN [g |-> g, res |-> [k |-> "list", items |-> results]]
    ELSE LET r == visit(g, node[i])
         IN InOrder(<<r>>,
                    visit_list(r.g, node, i + 1,
                               IF r.res = None THEN results ELSE Append(results, r.res)))

visit_Program(g, node) ==
    [g |-> visit_list(g, node.body, 1, <<>>).g, res |-> None]

visit_Declaration(g, node) == [g |-> g, res |-> None]

visit_Assignment(g, node) ==
    LET e == visit(g, node.expr)
    IN [g |-> IF e.res # None
              THEN add_instruction(e.g, "ASSIGN", e.res, None, Str(node.var))
              ELSE e.g,
        res |-> None]

visit_BinaryExpr(g, node) ==
    LET l == visit(g, node.left)
        r == visit(l.g, node.right)
        t == new_temp(r.g)
        opcode == BinaryOpcode(node.op, l.res, r.res)
    IN IF l.res = None \/ r.res = None THEN t
       ELSE IF opcode = "none" THEN t
       ELSE [g |-> add_instruction(t.g, opcode, l.res, r.res, t.res), res |-> t.res]

visit_UnaryExpr(g, node) ==
    LET o == visit(g, node.operand)
        t == new_temp(o.g)
    IN IF o.res = None THEN t
       ELSE IF node.op = "-"
            THEN [g |-> add_instruction(t.g, "UMINUS", o.res, None, t.res), res |-> t.res]
            ELSE o

visit_Variable(g, node) == [g |-> g, res |-> Str(node.name)]

visit_Number(g, node) == [g |-> g, res |-> Str(node.value)]

visit_StringLiteral(g, node) == new_string_label(g, node.value)

visit_Condition(g, node) ==
    LET l == visit(g, node.left)
        r == visit(l.g, node.right)
    IN [g |-> r.g,
        res |-> [k |-> "tuple", left |-> l.res, op |-> node.op, right |-> r.res]]

visit_ForLoop(g, node) ==
    LET g1 == visit(g, node.init).g
        start_loop_label == new_label(g1)
        g2 == add_instruction(start_loop_label.g, "LABEL", start_loop_label.res, None, None)
        cond_result == visit(g2, node.condition)
        body_label == new_label(cond_result.g)
        after_loop_label == new_label(body_label.g)
        g3 == IF cond_result.res # None
              THEN add_instruction(
                       add_instruction(after_loop_label.g,
                                       "IF_" \o cond_result.res.op,
                                       cond_result.res.left, cond_result.res.right,
                                       body_label.res),
                       "GOTO", after_loop_label.res, None, None)
              ELSE add_instruction(after_loop_label.g, "GOTO", after_loop_label.res,
                                   None, None)
        g4 == add_instruction(g3, "LABEL", body_label.res, None, None)
        g5 == visit_list(g4, node.body, 1, <<>>).g
        g6 == visit(g5, node.update).g
        g7 == add_instruction(g6, "GOTO", start_loop_label.res, None, None)
    IN InOrder(<<g1, g2, cond_result, g3, g4, g5, g6, g7>>,
               [g |-> add_instruction(g7, "LABEL", after_loop_label.res, None, None),
                res |-> None])

\* a dict node without a visitor of its own (CharLiteral, BooleanLiteral):
\* it has no dict or list child, nothing is visited and None is returned
generic_visit(g, node) == [g |-> g, res |-> None]

visit(g, node) ==
    CASE node.type = "Program" -> visit_Program(g, node)
      [] node.type = "Declaration" -> visit_Declaration(g, node)
      [] node.type = "Assignment" -> visit_Assignment(g, node)
      [] node.type = "BinaryExpr" -> visit_BinaryExpr(g, node)
      [] node.type = "UnaryExpr" -> visit_UnaryExpr(g, node)
      [] node.type = "Variable" -> visit_Variable(g, node)
      [] node.type = "Number" -> visit_Number(g, node)
      [] node.type = "StringLiteral" -> visit_StringLiteral(g, node)
      [] node.type = "Condition" -> visit_Condition(g, node)
      [] node.type = "ForLoop" -> visit_ForLoop(g, node)
      [] node.type = "None" -> [g |-> g, res |-> None]
      [] OTHER -> generic_visit(g, node)

---------------------------------------------------------------------------
(* TACOptimizer.  Instruction dicts live in a heap and a list holds their  *)
(* addresses, so that a copy and a change in place differ.  A loop         *)
(* `for instr in tac: <body>` is ForEach over the body as an operator on   *)
(* the loop's variables (st) and the address of the current instruction.   *)

\* for item in items[lo..hi]: st = body(st, item).  The range is run as its
\* first half and then its second half, which keeps TLC's evaluation shallow.
RECURSIVE ForEach(_, _, _, _, _)
ForEach(body(_, _), st, items, lo, hi) ==
    IF lo > hi THEN st
    ELSE IF lo = hi THEN body(st, items[lo])
    ELSE LET mid == (lo + hi) \div 2
             first == ForEach(body, st, items, lo, mid)
         IN InOrder(<<first>>, ForEach(body, first, items, mid + 1, hi))

\* reversed(tac)
Reversed(l) == [i \in 1..Len(l) |-> l[Len(l) + 1 - i]]

---------------------------------------------------------------------------
(* TACOptimizer.constant_folding *)

ArithOps == {"ADD", "SUB", "MUL", "DIV"}

\* eval(f"{arg1} {op_to_symbol(op)} {arg2}") on two numbers, divisor not zero
eval_op(op, a, b) ==
    CASE op = "ADD" -> Rat(a.n * b.d + b.n * a.d, a.d * b.d)
      [] op = "SUB" -> Rat(a.n * b.d - b.n * a.d, a.d * b.d)
      [] op = "MUL" -> Rat(a.n * b.n, a.d * b.d)
      [] op = "DIV" -> Rat(a.n * b.d, a.d * b.n)

constant_folding_loop(st, id) ==
    IF st.raised THEN st \* the exception has ended the loop
    ELSE LET instr == st.heap[id] IN
         IF instr.op \in ArithOps /\ IsNumber(instr.arg1) /\ IsNumber(instr.arg2)
         THEN IF instr.op = "DIV" /\ instr.arg2.n = 0
              THEN \* eval raises ZeroDivisionError, which nothing catches
                   [st EXCEPT !.raised = TRUE]
              ELSE [st EXCEPT !.heap = Append(@, Instr("ASSIGN",
                                                       eval_op(instr.op, instr.arg1,
                                                               instr.arg2),
                                                       None, instr.result)),
                              !.tac = Append(@, Len(st.heap) + 1)]
         ELSE [st EXCEPT !.tac = Append(@, id)]

constant_folding(h, l) ==
    ForEach(constant_folding_loop, [heap |-> h, tac |-> <<>>, raised |-> FALSE],
            l, 1, Len(l))

---------------------------------------------------------------------------
(* TACOptimizer.constant_propagation *)

\* first loop: the dict assigned_once (result -> arg1 of the first ASSIGN to
\* it) and the set reassigned (results of a second or later ASSIGN)
collect_assigned(st, id) ==
    LET instr == st.heap[id]
        var == instr.result
    IN IF instr.op = "ASSIGN" /\ Truthy(var)
       THEN IF var \in DOMAIN st.assigned_once
            THEN [st EXCEPT !.reassigned = @ \cup {var}]
            ELSE [st EXCEPT !.assigned_once = @ @@ (var :> instr.arg1)]
       ELSE st

\* const_vals = {var: val for var, val in assigned_once.items() if var not in reassigned}
const_vals_of(h, l) ==
    LET c == ForEach(collect_assigned,
                     [heap |-> h, assigned_once |-> <<>>, reassigned |-> {}],
                     l, 1, Len(l))
    IN [var \in (DOMAIN c.assigned_once) \ c.reassigned |-> c.assigned_once[var]]

\* one operand position of the copy: replaced when it is a str that is a key
substitute(val, const_vals) ==
    IF IsStr(val) /\ val \in DOMAIN const_vals THEN const_vals[val] ELSE val

\* the second loop without instr.copy(): the substitution is written into the
\* dict of the list the pass was given
propagate_in_place(st, id) ==
    LET instr == st.heap[id]
        changed == [instr EXCEPT !.arg1 = substitute(instr.arg1, st.const_vals),
                                 !.arg2 = substitute(instr.arg2, st.const_vals)]
    IN [st EXCEPT !.heap = [@ EXCEPT ![id] = changed], !.tac = Append(@, id)]

propagate_loop(st, id) ==
    LET instr == st.heap[id]
        copy == [instr EXCEPT !.arg1 = substitute(instr.arg1, st.const_vals),
                              !.arg2 = substitute(instr.arg2, st.const_vals)]
    IN \* instr = instr.copy(): the substitution is done on a fresh dict
       [st EXCEPT !.heap = Append(@, copy), !.tac = Append(@, Len(st.heap) + 1)]

constant_propagation(h, l) ==
    ForEach(propagate_loop,
            [heap |-> h, tac |-> <<>>, raised |-> FALSE, const_vals |-> const_vals_of(h, l)],
            l, 1, Len(l))

---------------------------------------------------------------------------
(* TACOptimizer.common_subexpression_elimination *)

\* a loop body that forgets a key when the instruction redefines one of the
\* key's operands
cse_loop_invalidating(st, id) ==
    LET instr == st.heap[id]
        key == <<instr.op, instr.arg1, instr.arg2>>
        live == { k \in DOMAIN st.expr_map :
                  k[2] # instr.result /\ k[3] # instr.result }
        kept == [k \in live |-> st.expr_map[k]]
    IN IF instr.op \in ArithOps
       THEN IF key \in DOMAIN st.expr_map
            THEN [st EXCEPT !.heap = Append(@, Instr("ASSIGN", st.expr_map[key],
                                                     None, instr.result)),
                            !.tac = Append(@, Len(st.heap) + 1),
                            !.expr_map = kept]
            ELSE [st EXCEPT !.expr_map = IF key[2] # instr.result /\ key[3] # instr.result
                                         THEN kept @@ (key :> instr.result) ELSE kept,
                            !.tac = Append(@, id)]
       ELSE [st EXCEPT !.expr_map = kept, !.tac = Append(@, id)]

cse_loop(st, id) ==
    LET instr == st.heap[id]
        key == <<instr.op, instr.arg1, instr.arg2>>
    IN IF instr.op \in ArithOps
       THEN IF key \in DOMAIN st.expr_map
            THEN [st EXCEPT !.heap = Append(@, Instr("ASSIGN", st.expr_map[key],
                                                     None, instr.result)),
                            !.tac = Append(@, Len(st.heap) + 1)]
            ELSE [st EXCEPT !.expr_map = @ @@ (key :> instr.result),
                            !.tac = Append(@, id)]
       ELSE [st EXCEPT !.tac = Append(@, id)]

common_subexpression_elimination(h, l) ==
    ForEach(cse_loop, [heap |-> h, tac |-> <<>>, raised |-> FALSE, expr_map |-> <<>>],
            l, 1, Len(l))

---------------------------------------------------------------------------
(* TACOptimizer.strength_reduction *)

strength_reduction_loop(st, id) ==
    LET instr == st.heap[id] IN
    IF instr.op = "MUL" /\ instr.arg2 = Num(2)
    THEN [st EXCEPT !.heap = Append(@, Instr("ADD", instr.arg1, instr.arg1, instr.result)),
                    !.tac = Append(@, Len(st.heap) + 1)]
    ELSE [st EXCEPT !.tac = Append(@, id)]

strength_reduction(h, l) ==
    ForEach(strength_reduction_loop, [heap |-> h, tac |-> <<>>, raised |-> FALSE],
            l, 1, Len(l))

---------------------------------------------------------------------------
(* TACOptimizer.dead_code_elimination *)

ControlOps == {"LABEL", "GOTO", "IF_FALSE"}

\* a dead_code_elimination whose use-set starts empty
initial_used_empty(h, l) == {}

\* the first loop: every truthy arg1 and arg2 of every instruction, and the
\* truthy result of every IF_FALSE and GOTO
initial_used(h, l) ==
    UNION { (IF Truthy(h[l[i]].arg1) THEN {h[l[i]].arg1} ELSE {})
            \cup (IF Truthy(h[l[i]].arg2) THEN {h[l[i]].arg2} ELSE {})
            \cup (IF h[l[i]].op \in {"IF_FALSE", "GOTO"} /\ Truthy(h[l[i]].result)
                  THEN {h[l[i]].result} ELSE {})
          : i \in 1..Len(l) }

\* the second loop, over reversed(tac); new_tac.insert(0, instr) prepends
dce_loop(st, id) ==
    LET instr == st.heap[id]
        result == instr.result
        a1 == IF Truthy(instr.arg1) THEN {instr.arg1} ELSE {}
        a2 == IF Truthy(instr.arg2) THEN {instr.arg2} ELSE {}
    IN IF instr.op \in ControlOps \/ (Truthy(result) /\ result \in st.used)
       THEN [st EXCEPT !.used = @ \cup a1 \cup a2, !.tac = <<id>> \o @]
       ELSE IF instr.op = "ASSIGN" /\ result \in st.used
            THEN [st EXCEPT !.used = @ \cup a1, !.tac = <<id>> \o @]
            ELSE st

dead_code_elimination(h, l) ==
    ForEach(dce_loop,
            [heap |-> h, tac |-> <<>>, raised |-> FALSE, used |-> initial_used(h, l)],
            Reversed(l), 1, Len(l))

---------------------------------------------------------------------------
(* TACOptimizer.optimize: the five passes in their fixed order.  The call  *)
(* is sequential; pc only exposes the value of the local `tac` between two *)
(* passes, and no other step can be taken in between.                      *)

\* __init__ and the call of the first pass
ConstantFolding ==
    /\ pc = "input"
    /\ LET r == constant_folding(heap, original_tac) IN
         /\ pc' = IF r.raised THEN "raised" ELSE "folded"
         /\ heap' = r.heap
         /\ arg_tac' = original_tac
         /\ tac' = IF r.raised THEN tac ELSE r.tac
         /\ tac_obj' = IF r.raised THEN tac_obj ELSE tac_obj + 1
    /\ UNCHANGED <<ast, generator, stmt_idx, original_tac, input_copy, optimized_tac>>
    /\ UNCHANGED front

\* tac = self.<pass>(tac): the pass gets the current list and returns a new one
RunPass(from, to, r) ==
    /\ pc = from
    /\ pc' = to
    /\ heap' = r.heap
    /\ arg_tac' = tac
    /\ tac' = r.tac
    /\ tac_obj' = tac_obj + 1
    /\ UNCHANGED <<ast, generator, stmt_idx, original_tac, input_copy>>
    /\ UNCHANGED front

ConstantPropagation ==
    /\ RunPass("folded", "propagated", constant_propagation(heap, tac))
    /\ UNCHANGED optimized_tac

CommonSubexpressionElimination ==
    /\ RunPass("propagated", "eliminated", common_subexpression_elimination(heap, tac))
    /\ UNCHANGED optimized_tac

StrengthReduction ==
    /\ RunPass("eliminated", "reduced", strength_reduction(heap, tac))
    /\ UNCHANGED optimized_tac

\* the last pass, self.optimized_tac = tac and the return
DeadCodeElimination ==
    LET r == dead_code_elimination(heap, tac)
    IN /\ RunPass("reduced", "done", r)
       /\ optimized_tac' = r.tac

optimize ==
    \/ ConstantFolding
    \/ ConstantPropagation
    \/ CommonSubexpressionElimination
    \/ StrengthReduction
    \/ DeadCodeElimination

---------------------------------------------------------------------------
(* Inputs of the optimizer taken directly: sequences of quadruples *)

MaxTacLen == 3

InstrPool ==
    { Instr("ADD", Num(2), Num(3), Str("t0")),
      Instr("ASSIGN", Str("t0"), None, Str("x")),
      Instr("DIV", Num(3), Num(0), Str("t1")),
      Instr("DIV", Num(3), Num(2), Str("t1")),
      Instr("ADD", Str("x"), Str("y"), Str("t0")),
      Instr("ADD", Str("x"), Str("y"), Str("t1")),
      Instr("ASSIGN", Num(2), None, Str("x")),
      Instr("ASSIGN", Str("y"), None, Str("x")),
      Instr("ASSIGN", Str("x"), None, Str("y")),
      Instr("MUL", Str("x"), Num(2), Str("t1")),
      Instr("SUB", Str("t1"), Str("t0"), Str("x")),
      Instr("LABEL", Str("L0"), None, None),
      Instr("GOTO", Str("L0"), None, None),
      Instr("IF_FALSE", Str("t0"), None, Str("L0")) }

InputSeqs == UNION { [1..n -> InstrPool] : n \in 0..MaxTacLen }

\* TACOptimizer(tac) on a list of freshly built dicts
InitOpt ==
    \E input \in InputSeqs :
        /\ ast = Program(<<>>)
        /\ generator = NewGenerator
        /\ stmt_idx = 1
        /\ pc = "input"
        /\ heap = input
        /\ original_tac = [i \in 1..Len(input) |-> i]
        /\ input_copy = input
        /\ arg_tac = <<>>
        /\ tac = <<>>
        /\ tac_obj = 1
        /\ optimized_tac = <<>>
        /\ NoFront

NextOpt == optimize

SpecOpt == InitOpt /\ [][NextOpt]_vars

---------------------------------------------------------------------------
(* The pipeline: a program is lowered by TACGenerator.generate, statement  *)
(* by statement of the Program body, and the instruction list is handed to *)
(* a TACOptimizer.                                                         *)

\* self.visit(node) in generate() -> visit_Program -> visit(list): one item
GenerateVisit ==
    /\ pc = "generate"
    /\ stmt_idx <= Len(ast.body)
    /\ generator' = visit(generator, ast.body[stmt_idx]).g
    /\ stmt_idx' = stmt_idx + 1
    /\ UNCHANGED <<ast, pc, heap, original_tac, input_copy, arg_tac, tac, tac_obj,
                   optimized_tac>>
    /\ UNCHANGED front

\* return self.tac_code, self.string_literals
GenerateReturn ==
    /\ pc = "generate"
    /\ stmt_idx > Len(ast.body)
    /\ pc' = "generated"
    /\ UNCHANGED <<ast, generator, stmt_idx, heap, original_tac, input_copy, arg_tac,
                   tac, tac_obj, optimized_tac>>
    /\ UNCHANGED front

\* TACOptimizer(tac_instructions): every instruction is a dict of its own
NewTACOptimizer ==
    /\ pc = "generated"
    /\ pc' = "input"
    /\ heap' = generator.tac_code
    /\ original_tac' = [i \in 1..Len(generator.tac_code) |-> i]
    /\ input_copy' = generator.tac_code
    /\ UNCHANGED <<ast, generator, stmt_idx, arg_tac, tac, tac_obj, optimized_tac>>
    /\ UNCHANGED front

---------------------------------------------------------------------------
(* Programs: every variable is declared int before use, so the semantic    *)
(* analyzer reports nothing for them.                                      *)

MaxStmts == 2

MaxLoopDepth == 2

UserVars == {"x", "i", "L0", "L2"}

Declarations ==
    <<Declaration("int", "x"), Declaration("int", "i"),
      Declaration("int", "L0"), Declaration("int", "L2")>>

SimpleStmts ==
    { Assignment("x", Number("5")),
      Assignment("x", BinaryExpr("+", Variable("x"), Number("1"))),
      Assignment("x", BinaryExpr("+", Number("2"), Number("3"))),
      Assignment("x", BinaryExpr("*", BinaryExpr("+", Variable("i"), Number("1")),
                                 Number("2"))),
      Assignment("x", UnaryExpr("-", Variable("x"))),
      Assignment("L0", Variable("L2")) }

\* for (i = 0; i < 3; i = i + 1) { body }
Loop(body) ==
    ForLoop(Assignment("i", Number("0")),
            Condition(Variable("i"), "<", Number("3")),
            Assignment("i", BinaryExpr("+", Variable("i"), Number("1"))),
            body)

RECURSIVE Stmts(_)
Stmts(depth) ==
    IF depth = 0 THEN SimpleStmts
    ELSE SimpleStmts \cup { Loop(body) :
                            body \in {<<>>} \cup { <<st>> : st \in Stmts(depth - 1) } }

Programs ==
    { Program(Declarations \o body) :
      body \in UNION { [1..n -> Stmts(MaxLoopDepth)] : n \in 0..MaxStmts } }

Init ==
    /\ ast \in Programs
    /\ generator = NewGenerator
    /\ stmt_idx = 1
    /\ pc = "generate"
    /\ heap = <<>>
    /\ original_tac = <<>>
    /\ input_copy = <<>>
    /\ arg_tac = <<>>
    /\ tac = <<>>
    /\ tac_obj = 1
    /\ optimized_tac = <<>>
    /\ NoFront

Next ==
    \/ GenerateVisit
    \/ GenerateReturn
    \/ NewTACOptimizer
    \/ optimize

Spec == Init /\ [][Next]_vars

---------------------------------------------------------------------------
(* The meaning of an instruction sequence, for the claims about semantics: *)
(* env maps names to integers; a str operand that is a numeral denotes the *)
(* number, any other str the value of that name.  LABEL and GOTO carry the *)
(* label in arg1 and a conditional jump IF_<relop> carries its target in   *)
(* result, as visit_ForLoop emits them.                                    *)

MaxExecSteps == 300

Numerals == ("0" :> 0) @@ ("1" :> 1) @@ ("2" :> 2) @@ ("3" :> 3) @@ ("5" :> 5)

HasValue(v, env) ==
    \/ IsNumber(v) /\ v.d = 1
    \/ IsStr(v) /\ (v.s \in DOMAIN Numerals \/ v.s \in DOMAIN env)

ValueOf(v, env) ==
    IF IsNumber(v) THEN v.n
    ELSE IF v.s \in DOMAIN Numerals THEN Numerals[v.s] ELSE env[v.s]

\* the positions of the LABEL instructions that define label
LabelPositions(code, label) ==
    { j \in 1..Len(code) : code[j].op = "LABEL" /\ code[j].arg1 = label }

Holds(relop, a, b) ==
    CASE relop = "IF_<" -> a < b
      [] relop = "IF_>" -> a > b
      [] relop = "IF_<=" -> a <= b
      [] relop = "IF_>=" -> a >= b
      [] relop = "IF_==" -> a = b
      [] relop = "IF_!=" -> a # b

Bind(env, name, value) ==
    [x \in DOMAIN env \cup {name} |-> IF x = name THEN value ELSE env[x]]

\* one instruction executed by the machine m: status, the position at, env
Step(code, m) ==
    IF m.status # "run" THEN m
    ELSE IF m.at > Len(code) THEN [m EXCEPT !.status = "halt"]
    ELSE LET instr == code[m.at]
             env == m.env
             stuck == [m EXCEPT !.status = "stuck"]
             next(e) == [m EXCEPT !.at = @ + 1, !.env = e]
             jump(label) ==
                 IF Cardinality(LabelPositions(code, label)) = 1
                 THEN [m EXCEPT !.at = CHOOSE j \in LabelPositions(code, label) : TRUE]
                 ELSE stuck
         IN CASE instr.op = "LABEL" -> next(env)
              [] instr.op = "GOTO" -> jump(instr.arg1)
              [] instr.op \in {"IF_<", "IF_>", "IF_<=", "IF_>=", "IF_==", "IF_!="} ->
                   IF HasValue(instr.arg1, env) /\ HasValue(instr.arg2, env)
                   THEN IF Holds(instr.op, ValueOf(instr.arg1, env),
                                 ValueOf(instr.arg2, env))
                        THEN jump(instr.result)
                        ELSE next(env)
                   ELSE stuck
              [] instr.op = "ASSIGN" ->
                   IF HasValue(instr.arg1, env) /\ IsStr(instr.result)
                   THEN next(Bind(env, instr.result.s, ValueOf(instr.arg1, env)))
                   ELSE stuck
              [] instr.op = "UMINUS" ->
                   IF HasValue(instr.arg1, env) /\ IsStr(instr.result)
                   THEN next(Bind(env, instr.result.s, 0 - ValueOf(instr.arg1, env)))
                   ELSE stuck
              [] instr.op \in {"ADD", "SUB", "MUL"} ->
                   IF HasValue(instr.arg1, env) /\ HasValue(instr.arg2, env)
                      /\ IsStr(instr.result)
                   THEN LET a == ValueOf(instr.arg1, env)
                            b == ValueOf(instr.arg2, env)
                            c == CASE instr.op = "ADD" -> a + b
                                   [] instr.op = "SUB" -> a - b
                                   [] instr.op = "MUL" -> a * b
                        IN next(Bind(env, instr.result.s, c))
                   ELSE stuck
              [] OTHER -> stuck

\* n steps of m, as the first half of them and then the rest
RECURSIVE RunSteps(_, _, _)
RunSteps(code, m, n) ==
    IF m.status # "run" \/ n = 0 THEN m
    ELSE IF n = 1 THEN Step(code, m)
    ELSE LET first == RunSteps(code, m, n \div 2)
         IN InOrder(<<first>>, RunSteps(code, first, n - n \div 2))

\* the run from position at in env: "halt" when it runs off the end within
\* `steps` instructions, "steps" when it does not, "stuck" when an instruction
\* cannot be executed
Run(code, at, env, steps) ==
    LET m == RunSteps(code, [status |-> "run", at |-> at, env |-> env], steps)
    IN [status |-> IF m.status = "run"
                   THEN (IF m.at > Len(code) THEN "halt" ELSE "steps")
                   ELSE m.status,
        env |-> m.env]

InitialValuations == [UserVars -> {0, 1}]

\* C1: for every generated sequence and every initial valuation of the user
\* variables, running the sequence optimize returned ends with the same value
\* in every user variable as running the generated sequence.
C1_OptimizePreservesSemantics ==
    pc = "done" =>
        \A env \in InitialValuations :
            LET before == Run(generator.tac_code, 1, env, MaxExecSteps)
                after == Run(Deref(heap, optimized_tac), 1, env, MaxExecSteps)
            IN before.status = "halt" =>
                   /\ after.status = "halt"
                   /\ \A v \in UserVars : after.env[v] = before.env[v]

---------------------------------------------------------------------------
(* Claims about optimize() on a sequence of quadruples *)

ScenarioInput ==
    <<Instr("ADD", Num(2), Num(3), Str("t0")), Instr("ASSIGN", Str("t0"), None, Str("x"))>>

\* C2: optimize applied to [ADD 2 3 -> t0, ASSIGN t0 -> x] returns exactly
\* [ASSIGN 5 -> x].
C2_ScenarioReducesToAssignFive ==
    (pc = "done" /\ input_copy = ScenarioInput) =>
        Deref(heap, optimized_tac) = <<Instr("ASSIGN", Num(5), None, Str("x"))>>

\* C3: optimize is total: it never raises, also for a DIV of two numeric
\* literals whose divisor is zero.
C3_OptimizeNeverRaises == pc # "raised"

OptimizerStates ==
    {"input", "folded", "propagated", "eliminated", "reduced", "done", "raised"}

\* C4: optimize does not change its input: the input list keeps its length,
\* its order and its dicts, every dict keeps its op, arg1, arg2 and result,
\* and the list optimize returns is another list object than the input.
C4_InputUnchanged ==
    pc \in OptimizerStates =>
        /\ original_tac = [i \in 1..Len(input_copy) |-> i]
        /\ Deref(heap, original_tac) = input_copy
        /\ pc = "done" => tac_obj # 1

\* constant propagation has substituted into an instruction of the input and
\* optimize has returned
C4_Witness ==
    /\ pc = "done"
    /\ LET folded == constant_folding(input_copy, original_tac)
           after == constant_propagation(folded.heap, folded.tac)
       IN Deref(after.heap, after.tac) # Deref(folded.heap, folded.tac)

---------------------------------------------------------------------------
(* Claims about the generated sequence *)

\* GOTO and every IF_... instruction
IsJump(op) == op = "GOTO" \/ (Len(op) >= 3 /\ SubSeq(op, 1, 3) = "IF_")

CountOps(code, ops) == Cardinality({ i \in 1..Len(code) : code[i].op \in ops })

CountJumps(code) == Cardinality({ i \in 1..Len(code) : IsJump(code[i].op) })

\* the ForLoop nodes in a list of statements, nested ones included
RECURSIVE LoopCount(_)
LoopCount(stmts) ==
    IF stmts = <<>> THEN 0
    ELSE (IF Head(stmts).type = "ForLoop" THEN 1 + LoopCount(Head(stmts).body) ELSE 0)
         + LoopCount(Tail(stmts))

\* the label a LABEL instruction defines, whichever field holds it
LabelOf(instr) == IF Truthy(instr.arg1) THEN instr.arg1 ELSE instr.result

\* C5: every ForLoop is lowered to LABEL start, condition into a temporary,
\* IF_FALSE temporary -> after, LABEL body, body, update, GOTO start,
\* LABEL after: per loop exactly 3 LABEL instructions and exactly 2 jumps, one
\* GOTO and one IF_FALSE, and the IF_FALSE target is the after label (the
\* label defined right after the GOTO back to start).
C5_ForLoopFixedShape ==
    pc = "generated" =>
        LET code == generator.tac_code
            loops == LoopCount(ast.body)
        IN /\ CountOps(code, {"LABEL"}) = 3 * loops
           /\ CountJumps(code) = 2 * loops
           /\ CountOps(code, {"GOTO"}) = loops
           /\ CountOps(code, {"IF_FALSE"}) = loops
           /\ \A i \in 1..Len(code) :
                  code[i].op = "IF_FALSE" =>
                      \E j \in (i + 1)..Len(code) :
                          /\ code[j].op = "LABEL"
                          /\ LabelOf(code[j]) = code[i].result
                          /\ code[j - 1].op = "GOTO"

\* the target of a jump as visit_ForLoop emits it: arg1 of GOTO, result of IF_...
TargetOf(instr) == IF instr.op = "GOTO" THEN instr.arg1 ELSE instr.result

JumpTargetsIntact(code) ==
    \A i \in 1..Len(code) :
        IsJump(code[i].op) =>
            Cardinality(LabelPositions(code, TargetOf(code[i]))) = 1

\* C6: in the generated sequence and in the sequence optimize returns for it,
\* the target of every GOTO and of every conditional jump names a label that
\* occurs exactly once as a LABEL instruction of that sequence.
C6_JumpTargetIntegrity ==
    /\ pc \in {"generated"} \cup OptimizerStates => JumpTargetsIntact(generator.tac_code)
    /\ pc = "done" => JumpTargetsIntact(Deref(heap, optimized_tac))

NoDuplicates(names) ==
    \A i, j \in 1..Len(names) : i # j => names[i] # names[j]

\* C7: every name new_temp and new_label return is distinct from all names
\* returned before, and temp_count and label_count never decrease.
C7_NamesUniqueCountersMonotonic ==
    /\ [](NoDuplicates(generator.returned))
    /\ [][/\ generator'.temp_count >= generator.temp_count
          /\ generator'.label_count >= generator.label_count]_vars

\* a loop nested in a loop and an expression with two operators were lowered
C7_Witness ==
    /\ pc = "generated"
    /\ generator.label_count >= 6
    /\ generator.temp_count >= 4
    /\ Len(generator.returned) = generator.label_count + generator.temp_count

---------------------------------------------------------------------------
(* Claims about single passes: arg_tac is what the pass got, tac what it   *)
(* returned                                                                *)

AssignsTo(code, var) ==
    { j \in 1..Len(code) : code[j].op = "ASSIGN" /\ code[j].result = var }

\* var is the result of exactly one ASSIGN of code, and that ASSIGN assigns a
\* numeric literal
AssignedLiteralOnce(code, var) ==
    /\ Cardinality(AssignsTo(code, var)) = 1
    /\ \A j \in AssignsTo(code, var) : IsNumber(code[j].arg1)

\* C8: constant propagation changes an operand only if the operand names a
\* variable that is assigned exactly once in the whole sequence and is assigned
\* a literal there.
C8_PropagatesOnlyLiteralsAssignedOnce ==
    pc = "propagated" =>
        LET in == Deref(heap, arg_tac)
            out == Deref(heap, tac)
        IN \A i \in 1..Len(in) :
               /\ out[i].arg1 # in[i].arg1 =>
                      IsStr(in[i].arg1) /\ AssignedLiteralOnce(in, in[i].arg1)
               /\ out[i].arg2 # in[i].arg2 =>
                      IsStr(in[i].arg2) /\ AssignedLiteralOnce(in, in[i].arg2)

KeyOf(instr) == <<instr.op, instr.arg1, instr.arg2>>

\* the positions before i of the arithmetic instructions with the key of code[i]
EarlierWithKey(code, i) ==
    { j \in 1..(i - 1) : code[j].op \in ArithOps /\ KeyOf(code[j]) = KeyOf(code[i]) }

Min(S) == CHOOSE m \in S : \A n \in S : m <= n

\* C9: common-subexpression elimination keeps the first ADD/SUB/MUL/DIV with
\* a given (op, arg1, arg2) unchanged and replaces every later one by ASSIGN
\* from the first one's result into its own result, also when an operand was
\* redefined in between; every other instruction and the length are unchanged.
C9_CseReplacesLaterOccurrences ==
    pc = "eliminated" =>
        LET in == Deref(heap, arg_tac)
            out == Deref(heap, tac)
        IN /\ Len(out) = Len(in)
           /\ \A i \in 1..Len(in) :
                  IF in[i].op \in ArithOps /\ EarlierWithKey(in, i) # {}
                  THEN out[i] = Instr("ASSIGN", in[Min(EarlierWithKey(in, i))].result,
                                      None, in[i].result)
                  ELSE out[i] = in[i]

\* a later occurrence was replaced although an instruction between the two
\* occurrences redefines one of its operands
C9_Witness ==
    /\ pc = "eliminated"
    /\ LET in == Deref(heap, arg_tac)
           out == Deref(heap, tac)
       IN \E i \in 1..Len(in) :
              /\ in[i].op \in ArithOps
              /\ EarlierWithKey(in, i) # {}
              /\ out[i].op = "ASSIGN"
              /\ \E m \in (Min(EarlierWithKey(in, i)) + 1)..(i - 1) :
                     in[m].result \in {in[i].arg1, in[i].arg2}

\* the backward pass as C10 describes it: the use-set starts empty and gets
\* the operands of the control-flow instructions and of the retained
\* instructions as they are visited
LivenessStep(st, instr) ==
    LET operands == { v \in {instr.arg1, instr.arg2} : Truthy(v) }
    IN IF instr.op \in ControlOps
       THEN [used |-> st.used \cup operands \cup { v \in {instr.result} : Truthy(v) },
             kept |-> <<instr>> \o st.kept]
       ELSE IF instr.result \in st.used
            THEN [used |-> st.used \cup operands, kept |-> <<instr>> \o st.kept]
            ELSE st

BackwardLiveness(code) ==
    ForEach(LivenessStep, [used |-> {}, kept |-> <<>>], Reversed(code), 1, Len(code)).kept

\* C10 as stated: an ASSIGN or arithmetic instruction is retained only if its
\* result is in the use-set built so far from later control-flow and retained
\* instructions; one referenced only by eliminated instructions or by earlier
\* instructions is removed.
C10_RetainedOnlyIfUsedLater ==
    pc = "done" =>
        Deref(heap, tac) =
            BackwardLiveness(Deref(heap, arg_tac))

\* every truthy arg1 and arg2 of the sequence, and the truthy result of every
\* GOTO and IF_FALSE
ReferencedAnywhere(code) ==
    { v \in UNION { {code[i].arg1, code[i].arg2} : i \in 1..Len(code) } : Truthy(v) }
    \cup { code[i].result : i \in { j \in 1..Len(code) :
                                    /\ code[j].op \in {"GOTO", "IF_FALSE"}
                                    /\ Truthy(code[j].result) } }

\* C10 as amended: an ASSIGN or arithmetic instruction is retained exactly if
\* its result is referenced by some instruction anywhere in the sequence
\* (before or after it, retained or eliminated); LABEL, GOTO and IF_FALSE are
\* always retained; the order is kept.
C10_RetainedIffReferencedAnywhere ==
    pc = "done" =>
        LET in == Deref(heap, arg_tac)
            Retained(instr) == \/ instr.op \in ControlOps
                               \/ instr.result \in ReferencedAnywhere(in)
        IN Deref(heap, tac) = SelectSeq(in, Retained)

\* dead-code elimination has retained an instruction that the backward
\* liveness pass of C10 removes
C10_Witness ==
    /\ pc = "done"
    /\ Deref(heap, tac) # BackwardLiveness(Deref(heap, arg_tac))
    /\ Len(tac) < Len(arg_tac)


---------------------------------------------------------------------------
(* Lexical_Analyzer.py: token_specification and tokenize.  A token is the  *)
(* tuple <<kind, value>>.  Positions are Python's: 0-based, code[pos] is   *)
(* the character CharAt(code, pos).                                        *)

Lower ==
    {"a", "b", "c", "d", "e", "f", "g", "h", "i", "j", "k", "l", "m",
     "n", "o", "p", "q", "r", "s", "t", "u", "v", "w", "x", "y", "z"}

Upper ==
    {"A", "B", "C", "D", "E", "F", "G", "H", "I", "J", "K", "L", "M",
     "N", "O", "P", "Q", "R", "S", "T", "U", "V", "W", "X", "Y", "Z"}

Digits == {"0", "1", "2", "3", "4", "5", "6", "7", "8", "9"}

\* \w
WordChars == Lower \cup Upper \cup Digits \cup {"_"}

\* [a-zA-z_]: the range A-z also holds the characters between Z and a (the
\* grave accent, which no text of the model contains, is left out)
IdStart == Lower \cup Upper \cup {"[", "\\", "]", "^", "_"}

\* [=+<*-/]: the range *-/ is * + , - . /
OpChars == {"=", "+", "<", "*", ",", "-", ".", "/"}

SymbolChars == {"{", "}", "(", ")", ";"}

SkipChars == {" ", "\t"}

Keywords == <<"for", "int", "float">>

\* code[pos], the empty string outside the text
CharAt(code, pos) ==
    IF pos >= 0 /\ pos < Len(code) THEN SubSeq(code, pos + 1, pos + 1) ELSE ""

\* code[pos:end]
Slice(code, pos, end) ==
    IF end > Len(code) \/ end <= pos THEN "" ELSE SubSeq(code, pos + 1, end)

\* \b at pos: exactly one of code[pos - 1], code[pos] is a word character
WordBoundary(code, pos) ==
    (CharAt(code, pos - 1) \in WordChars) # (CharAt(code, pos) \in WordChars)

\* the end of the longest run of characters of `class` that starts at pos
RECURSIVE RunEnd(_, _, _)
RunEnd(code, pos, class) ==
    IF CharAt(code, pos) \in class THEN RunEnd(code, pos + 1, class) ELSE pos

\* the ends a greedy repetition can back off to, the longest first, that
\* the closing \b accepts; 0 - 1 when there is none
LongestBoundedEnd(code, lo, hi) ==
    LET ends == {e \in lo..hi : WordBoundary(code, e)}
    IN IF ends = {} THEN 0 - 1 ELSE CHOOSE e \in ends : \A f \in ends : f <= e

\* where each alternative of tok_regex ends when tried at pos, 0 - 1 when
\* it does not match
MatchKEYWORD(code, pos) ==
    LET hits == {i \in 1..Len(Keywords) :
                    /\ Slice(code, pos, pos + Len(Keywords[i])) = Keywords[i]
                    /\ WordBoundary(code, pos + Len(Keywords[i]))}
    IN IF WordBoundary(code, pos) /\ hits # {}
       THEN pos + Len(Keywords[CHOOSE i \in hits : \A j \in hits : i <= j])
       ELSE 0 - 1

MatchID(code, pos) ==
    IF WordBoundary(code, pos) /\ CharAt(code, pos) \in IdStart
    THEN LongestBoundedEnd(code, pos + 1, RunEnd(code, pos + 1, WordChars))
    ELSE 0 - 1

MatchCONSTANT(code, pos) ==
    IF WordBoundary(code, pos) /\ CharAt(code, pos) \in Digits
    THEN LongestBoundedEnd(code, pos + 1, RunEnd(code, pos + 1, Digits))
    ELSE 0 - 1

MatchOP(code, pos) == IF CharAt(code, pos) \in OpChars THEN pos + 1 ELSE 0 - 1

MatchLiteral(code, pos, text) ==
    IF Slice(code, pos, pos + Len(text)) = text THEN pos + Len(text) ELSE 0 - 1

MatchSYMBOL(code, pos) == IF CharAt(code, pos) \in SymbolChars THEN pos + 1 ELSE 0 - 1

MatchSKIP(code, pos) ==
    IF CharAt(code, pos) \in SkipChars THEN RunEnd(code, pos, SkipChars) ELSE 0 - 1

\* //.* runs to the end of the line
MatchCOMMENT(code, pos) ==
    IF Slice(code, pos, pos + 2) = "//"
    THEN RunEnd(code, pos + 2, {CharAt(code, q) : q \in 0..(Len(code) - 1)} \ {"\n"})
    ELSE 0 - 1

\* token_specification, in its order, tried at pos
token_specification(code, pos) ==
    <<[kind |-> "KEYWORD", end |-> MatchKEYWORD(code, pos)],
      [kind |-> "ID", end |-> MatchID(code, pos)],
      [kind |-> "CONSTANT", end |-> MatchCONSTANT(code, pos)],
      [kind |-> "OP", end |-> MatchOP(code, pos)],
      [kind |-> "EQ", end |-> MatchLiteral(code, pos, "==")],
      [kind |-> "NE", end |-> MatchLiteral(code, pos, "!=")],
      [kind |-> "LE", end |-> MatchLiteral(code, pos, "<=")],
      [kind |-> "GE", end |-> MatchLiteral(code, pos, ">=")],
      [kind |-> "SYMBOL", end |-> MatchSYMBOL(code, pos)],
      [kind |-> "SKIP", end |-> MatchSKIP(code, pos)],
      [kind |-> "NEWLINE", end |-> MatchLiteral(code, pos, "\n")],
      [kind |-> "COMMENT", end |-> MatchCOMMENT(code, pos)]>>

\* get_token(code, pos): the first alternative that matches, kind "none"
\* when re.match returns None
get_token(code, pos) ==
    LET alts == token_specification(code, pos)
        hits == {i \in 1..Len(alts) : alts[i].end >= 0}
    IN IF hits = {} THEN [kind |-> "none", end |-> pos]
       ELSE alts[CHOOSE i \in hits : \A j \in hits : i <= j]

\* the while loop of tokenize from pos on; raised = the SyntaxError
\* 'Unexpected character'
RECURSIVE tokenize_loop(_, _, _)
tokenize_loop(code, pos, toks) ==
    IF pos >= Len(code) THEN [tokens |-> toks, raised |-> FALSE, pos |-> pos]
    ELSE LET match == get_token(code, pos)
         IN IF match.kind = "none" THEN [tokens |-> toks, raised |-> TRUE, pos |-> pos]
            ELSE tokenize_loop(code, match.end,
                     IF match.kind \in {"SKIP", "COMMENT", "NEWLINE"} THEN toks
                     ELSE Append(toks, <<match.kind, Slice(code, pos, match.end)>>))

tokenize(code) == tokenize_loop(code, 0, <<>>)

---------------------------------------------------------------------------
(* Syntax_analyzer.py: SyntaxAnalyzer.  The parser object p is its        *)
(* position in the token list; a SyntaxError is p.raised with the parts of *)
(* its message.  The methods call each other recursively; the model keeps  *)
(* the call stack as a value and runs the methods statement by statement.  *)

\* self.<method>(): the methods of the grammar call one another by name;
\* arg is the node or the list a loop has built so far

\* the argument None of match and expect
NoneArg == ""

\* self.current() is not None
HasCurrent(toks, p) == p.pos < Len(toks)

\* current_token_info(): (None, None) at the end of the input
current_token_info(toks, p) ==
    IF HasCurrent(toks, p)
    THEN [type |-> toks[p.pos + 1][1], value |-> toks[p.pos + 1][2]]
    ELSE [type |-> "None", value |-> "None"]

\* match: the position moves only when type and value both match
match(toks, p, expected_type, expected_value) ==
    IF p.raised THEN [p |-> p, matched |-> FALSE, value |-> ""]
    ELSE LET cur == current_token_info(toks, p)
             type_match == expected_type = NoneArg \/ cur.type = expected_type
             value_match == expected_value = NoneArg \/ cur.value = expected_value
         IN IF HasCurrent(toks, p) /\ type_match /\ value_match
            THEN [p |-> [p EXCEPT !.pos = @ + 1], matched |-> TRUE, value |-> cur.value]
            ELSE [p |-> p, matched |-> FALSE, value |-> ""]

\* f"'{value}' ({type})"
Describe(value, type) == "'" \o value \o "' (" \o type \o ")"

\* raise SyntaxError(err_msg) with the parts err_msg is formatted from
Raise(p, expected, found) ==
    [p EXCEPT !.raised = TRUE,
              !.error = [expected |-> expected, found |-> found, position |-> p.pos]]

expect(toks, p, expected_type, expected_value) ==
    LET m == match(toks, p, expected_type, expected_value)
        cur == current_token_info(toks, p)
        expected_desc == IF expected_value # NoneArg
                         THEN Describe(expected_value, expected_type)
                         ELSE "type '" \o expected_type \o "'"
        found_desc == IF HasCurrent(toks, p) THEN Describe(cur.value, cur.type)
                      ELSE "end of input"
    IN IF p.raised \/ m.matched THEN m
       ELSE [p |-> Raise(p, expected_desc, found_desc), matched |-> FALSE, value |-> ""]

declaration_keywords == {"int", "float", "string", "double", "char", "bool"}

\* can_start_stmt of parse_stmt_list
can_start_stmt(cur) ==
    \/ cur.value = "for" /\ cur.type = "KEYWORD"
    \/ cur.value \in declaration_keywords /\ cur.type = "KEYWORD"
    \/ cur.type = "ID"

\* a statement of a method that consumes input: an expect (or a match that
\* was found to succeed), or the call of a method
Expect(expected_type, expected_value) ==
    [kind |-> "expect", type |-> expected_type, value |-> expected_value]

Call(method) == [kind |-> "call", type |-> method, value |-> NoneArg]

\* What a method does when the statements it was running are done: run
\* more statements (the rule it logs, the statements, its values so far),
\* return a node, or raise.  `out` lists the values the activation has got
\* from its expects and calls, in order; rule is "" on entry.
Steps(rule, steps, out) == [kind |-> "steps", rule |-> rule, steps |-> steps, out |-> out]

Return(node) == [kind |-> "return", node |-> node]

Throw(expected, found) == [kind |-> "raise", expected |-> expected, found |-> found]

\* out is stmts, the list of the statements parsed so far
parse_stmt_list(toks, p, rule, out) ==
    LET cur == current_token_info(toks, p)
    IN IF ~HasCurrent(toks, p) \/ cur.value = "}" \/ ~can_start_stmt(cur)
       THEN Return(out)
       ELSE Steps("StmtList -> Stmt StmtList_Tail", <<Call("parse_stmt")>>, out)

parse_stmt(toks, p, rule, out) ==
    LET cur == current_token_info(toks, p)
    IN IF rule # "" THEN Return(out[1])
       ELSE IF cur.value = "for" /\ cur.type = "KEYWORD"
            THEN Steps("Stmt -> ForLoop", <<Call("parse_for_loop")>>, <<>>)
       ELSE IF cur.value \in declaration_keywords /\ cur.type = "KEYWORD"
            THEN Steps("Stmt -> Declaration", <<Call("parse_declaration")>>, <<>>)
       ELSE IF cur.type = "ID"
            THEN Steps("Stmt -> Assignment ;",
                       <<Call("parse_assignment"), Expect("SYMBOL", ";")>>, <<>>)
       ELSE Throw("start of a statement (for, type, or ID)",
                  Describe(cur.value, cur.type))

\* out is <<var_type_token, var_name>>, then '=' and the initializer when
\* there is one, then ';'
parse_declaration(toks, p, rule, out) ==
    CASE Len(out) = 0 ->
           Steps("Declaration -> Type ID [= Expression] ;",
                 <<Expect("KEYWORD", NoneArg)>>, out)
      [] Len(out) = 1 ->
           IF out[1] \notin declaration_keywords
           THEN Throw("type", out[1])
           ELSE Steps(rule, <<Expect("ID", NoneArg)>>, out)
      [] Len(out) = 2 ->
           IF match(toks, p, "ASSIGN", "=").matched
           THEN Steps(rule, <<Expect("ASSIGN", "="), Call("parse_expression"),
                              Expect("SYMBOL", ";")>>, out)
           ELSE Steps(rule, <<Expect("SYMBOL", ";")>>, out)
      [] Len(out) = 3 -> Return(Declaration(out[1], out[2]))
      [] OTHER -> Return(DeclarationInit(out[1], out[2], out[4]))

parse_for_loop(toks, p, rule, out) ==
    IF rule = ""
    THEN Steps("ForLoop -> 'for' '(' Assignment ';' Condition ';' Assignment ')' '{' StmtList '}'",
               <<Expect("KEYWORD", "for"), Expect("SYMBOL", "("),
                 Call("parse_assignment"), Expect("SYMBOL", ";"),
                 Call("parse_condition"), Expect("SYMBOL", ";"),
                 Call("parse_assignment"), Expect("SYMBOL", ")"),
                 Expect("SYMBOL", "{"), Call("parse_stmt_list"),
                 Expect("SYMBOL", "}")>>, <<>>)
    ELSE Return(ForLoop(out[3], out[5], out[7], out[10]))

parse_assignment(toks, p, rule, out) ==
    IF rule = ""
    THEN Steps("Assignment -> ID = Expression",
               <<Expect("ID", NoneArg), Expect("ASSIGN", "="),
                 Call("parse_expression")>>, <<>>)
    ELSE Return(Assignment(out[1], out[3]))

\* both branches of parse_condition do the same
parse_condition(toks, p, rule, out) ==
    CASE Len(out) = 0 -> Steps("Condition", <<Call("parse_expression")>>, out)
      [] Len(out) = 1 ->
           Steps("Condition -> Expression RelOp Expression",
                 <<Expect("REL_OP", NoneArg), Call("parse_expression")>>, out)
      [] OTHER -> Return(Condition(out[1], out[2], out[3]))

parse_factor(toks, p, rule, out) ==
    LET cur == current_token_info(toks, p)
    IN CASE rule = "" ->
              IF match(toks, p, "OP", "-").matched
              THEN Steps("Factor -> - Factor",
                         <<Expect("OP", "-"), Call("parse_factor")>>, <<>>)
              ELSE IF match(toks, p, "SYMBOL", "(").matched
              THEN Steps("Factor -> ( Expression )",
                         <<Expect("SYMBOL", "("), Call("parse_expression"),
                           Expect("SYMBOL", ")")>>, <<>>)
              ELSE IF cur.type = "ID"
              THEN Steps("Factor -> ID", <<Expect("ID", NoneArg)>>, <<>>)
              ELSE IF cur.type = "NUMBER"
              THEN Steps("Factor -> NUMBER", <<Expect("NUMBER", NoneArg)>>, <<>>)
              ELSE IF cur.type = "STRING_LITERAL"
              THEN Steps("Factor -> STRING_LITERAL",
                         <<Expect("STRING_LITERAL", NoneArg)>>, <<>>)
              ELSE IF cur.type = "CHAR_LITERAL"
              THEN Steps("Factor -> CHAR_LITERAL",
                         <<Expect("CHAR_LITERAL", NoneArg)>>, <<>>)
              ELSE IF cur.type = "KEYWORD" /\ cur.value = "true"
              THEN Steps("Factor -> true", <<Expect("KEYWORD", "true")>>, <<>>)
              ELSE IF cur.type = "KEYWORD" /\ cur.value = "false"
              THEN Steps("Factor -> false", <<Expect("KEYWORD", "false")>>, <<>>)
              ELSE Throw("a valid factor (ID, Number, Literal, '(', or unary op)",
                         Describe(cur.value, cur.type))
         [] rule = "Factor -> - Factor" -> Return(UnaryExpr("-", out[2]))
         [] rule = "Factor -> ( Expression )" -> Return(out[2])
         [] rule = "Factor -> ID" -> Return(Variable(out[1]))
         [] rule = "Factor -> NUMBER" -> Return(Number(out[1]))
         [] rule = "Factor -> STRING_LITERAL" -> Return(StringLiteral(out[1]))
         [] rule = "Factor -> CHAR_LITERAL" -> Return(CharLiteral(out[1]))
         [] rule = "Factor -> true" -> Return(BooleanLiteral(TRUE))
         [] rule = "Factor -> false" -> Return(BooleanLiteral(FALSE))

\* the loop of parse_term and of parse_expression if a round made the
\* node so far the right operand
swapped_operands_loop(toks, p, rule, out, operators, operand) ==
    LET cur == current_token_info(toks, p)
        node == IF Len(out) = 3 THEN BinaryExpr(out[2], out[3], out[1]) ELSE out[1]
    IN IF cur.type = "OP" /\ cur.value \in operators
       THEN Steps(rule, <<Expect("OP", cur.value), Call(operand)>>, <<node>>)
       ELSE Return(node)

\* the loop of parse_term and of parse_expression: out is <<node>>, or
\* <<node, op, right>> at the end of a round, which makes the next node
binary_loop(toks, p, rule, out, operators, operand) ==
    LET cur == current_token_info(toks, p)
        node == IF Len(out) = 3 THEN BinaryExpr(out[2], out[1], out[3]) ELSE out[1]
    IN IF cur.type = "OP" /\ cur.value \in operators
       THEN Steps(rule, <<Expect("OP", cur.value), Call(operand)>>, <<node>>)
       ELSE Return(node)

parse_term(toks, p, rule, out) ==
    IF rule = "" THEN Steps("Term -> Factor Term'", <<Call("parse_factor")>>, <<>>)
    ELSE binary_loop(toks, p, rule, out, {"*", "/"}, "parse_factor")

parse_expression(toks, p, rule, out) ==
    IF rule = ""
    THEN Steps("Expression -> Term Expression'", <<Call("parse_term")>>, <<>>)
    ELSE binary_loop(toks, p, rule, out, {"+", "-"}, "parse_term")

\* what activation f of a method does when its statements are done
choose(toks, p, f) ==
    CASE f.method = "parse_stmt_list" -> parse_stmt_list(toks, p, f.rule, f.out)
      [] f.method = "parse_stmt" -> parse_stmt(toks, p, f.rule, f.out)
      [] f.method = "parse_declaration" -> parse_declaration(toks, p, f.rule, f.out)
      [] f.method = "parse_for_loop" -> parse_for_loop(toks, p, f.rule, f.out)
      [] f.method = "parse_assignment" -> parse_assignment(toks, p, f.rule, f.out)
      [] f.method = "parse_condition" -> parse_condition(toks, p, f.rule, f.out)
      [] f.method = "parse_factor" -> parse_factor(toks, p, f.rule, f.out)
      [] f.method = "parse_term" -> parse_term(toks, p, f.rule, f.out)
      [] f.method = "parse_expression" -> parse_expression(toks, p, f.rule, f.out)

\* The call stack of the parser: m.stack lists the activations, the
\* running one last; m.p is the parser object; m.node is what the first
\* activation returned.  A SyntaxError unwinds the whole stack.
Activation(method) == [method |-> method, rule |-> "", steps |-> <<>>, out |-> <<>>]

Unwound(p) == [p |-> p, stack |-> <<>>, node |-> NoNode]

\* the activation below the running one gets the returned node
returned(callers, node) ==
    [callers EXCEPT ![Len(callers)].out = Append(@, node)]

after_choice(m, callers, f, c) ==
    CASE c.kind = "steps" ->
           [m EXCEPT !.stack = Append(callers, [f EXCEPT !.rule = c.rule,
                                                         !.steps = c.steps,
                                                         !.out = c.out])]
      [] c.kind = "return" ->
           IF callers = <<>> THEN [p |-> m.p, stack |-> <<>>, node |-> c.node]
           ELSE [m EXCEPT !.stack = returned(callers, c.node)]
      [] c.kind = "raise" -> Unwound(Raise(m.p, c.expected, c.found))

after_expect(m, callers, f, e) ==
    IF e.p.raised THEN Unwound(e.p)
    ELSE [m EXCEPT !.p = e.p,
                   !.stack = Append(callers, [f EXCEPT !.steps = Tail(@),
                                                       !.out = Append(@, e.value)])]

\* one statement of the running activation f
advance(toks, m, callers, f) ==
    IF f.steps = <<>> THEN after_choice(m, callers, f, choose(toks, m.p, f))
    ELSE IF Head(f.steps).kind = "expect"
         THEN after_expect(m, callers, f,
                           expect(toks, m.p, Head(f.steps).type, Head(f.steps).value))
    ELSE [m EXCEPT !.stack = Append(Append(callers, [f EXCEPT !.steps = Tail(@)]),
                                    Activation(Head(f.steps).type))]

resume(toks, m) ==
    advance(toks, m, SubSeq(m.stack, 1, Len(m.stack) - 1), m.stack[Len(m.stack)])

\* n statements of the parser, as the first half of them and then the rest
RECURSIVE run_parser(_, _, _)
run_parser(toks, m, n) ==
    IF m.stack = <<>> \/ n = 0 THEN m
    ELSE IF n = 1 THEN resume(toks, m)
    ELSE run_parser(toks, run_parser(toks, m, n \div 2), n - n \div 2)

\* more statements than a parse of toks can run: a statement consumes a
\* token, or is one of the calls and returns between two tokens
StatementsPerToken == 64

\* parse(): tokens that remain after the statement list are only logged
parse(toks, p) ==
    LET m == run_parser(toks, [p |-> p, stack |-> <<Activation("parse_stmt_list")>>,
                               node |-> NoNode],
                        StatementsPerToken * (Len(toks) + 1))
    IN [p |-> m.p, node |-> IF m.p.raised THEN NoNode ELSE Program(m.node)]

---------------------------------------------------------------------------
(* Semantic_analyzer.py: SemanticAnalyzer.  Every method takes the         *)
(* analyzer object a and returns the object it leaves.  A diagnostic is    *)
(* the record of the parts its message is formatted from: `kind` is the    *)
(* fixed wording of the message.                                           *)

Err(kind, name, left, right) ==
    [kind |-> kind, name |-> name, left |-> left, right |-> right]

\* self.errors.append(...)
AddError(a, e) == [a EXCEPT !.errors = Append(@, e)]

supported_types == {"int", "float", "string", "double", "char", "bool"}

numeric_types == {"int", "float", "double"}

\* the escapes ['n', 't', "'", '"', '\\']
escapes == {"n", "t", "'", "\"", "\\"}

\* '.' in value_str or 'e' in value_str.lower()
HasDotOrE(v) == \E i \in 0..(Len(v) - 1) : CharAt(v, i) \in {".", "e", "E"}

\* int(v) does not raise ValueError, for a lexeme of digits, '.' and letters
ValidInt(v) == Len(v) > 0 /\ \A i \in 0..(Len(v) - 1) : CharAt(v, i) \in Digits

\* float(v) does not raise ValueError, for a lexeme of digits, '.' and
\* letters without an exponent
ValidFloat(v) ==
    /\ \A i \in 0..(Len(v) - 1) : CharAt(v, i) \in Digits \cup {"."}
    /\ Cardinality({i \in 0..(Len(v) - 1) : CharAt(v, i) = "."}) <= 1
    /\ \E i \in 0..(Len(v) - 1) : CharAt(v, i) \in Digits

\* float(v) == 0 for such a lexeme
FloatIsZero(v) == \A i \in 0..(Len(v) - 1) : CharAt(v, i) \in {"0", "."}

\* a Python value by its type and its text str(value); PyNone is None
PyValue(py, text) == [py |-> py, text |-> text]

\* str(int(v)): the digits without leading zeros
RECURSIVE IntText(_)
IntText(v) == IF Len(v) > 1 /\ CharAt(v, 0) = "0" THEN IntText(Tail(v)) ELSE v

PyNone == PyValue("NoneType", "None")

\* val_str starts and ends with a single quote
Quoted(val_str) ==
    CharAt(val_str, 0) = "'" /\ CharAt(val_str, Len(val_str) - 1) = "'"

get_variable_type(a, var_name) ==
    IF var_name \in DOMAIN a.symbol_table THEN a.symbol_table[var_name].type
    ELSE "Unknown"

\* the result type if the test for float were missing
widest_without_float(left_type, right_type) ==
    IF "double" \in {left_type, right_type} THEN "double" ELSE "int"

\* the numeric result types of get_expression_type
Widest(left_type, right_type) ==
    IF "double" \in {left_type, right_type} THEN "double"
    ELSE IF "float" \in {left_type, right_type} THEN "float"
    ELSE "int"

\* get_expression_type returns a type and may append diagnostics
RECURSIVE get_expression_type(_, _)
get_expression_type(a, expr_node) ==
    CASE expr_node.type = "Number" ->
           IF HasDotOrE(expr_node.value)
           THEN IF ValidFloat(expr_node.value) THEN [a |-> a, type |-> "double"]
                ELSE [a |-> AddError(a, Err("Invalid number format", expr_node.value, "", "")),
                      type |-> "Unknown"]
           ELSE IF ValidInt(expr_node.value) THEN [a |-> a, type |-> "int"]
                ELSE [a |-> AddError(a, Err("Invalid number format", expr_node.value, "", "")),
                      type |-> "Unknown"]
      [] expr_node.type = "Variable" ->
           [a |-> a, type |-> get_variable_type(a, expr_node.name)]
      [] expr_node.type = "BinaryExpr" ->
           LET l == get_expression_type(a, expr_node.left)
               r == get_expression_type(l.a, expr_node.right)
               op == expr_node.op
               numeric == l.type \in numeric_types /\ r.type \in numeric_types
           IN InOrder(<<l, r>>,
                  [a |-> r.a,
                   type |->
                     IF l.type = "Unknown" \/ r.type = "Unknown" THEN "Unknown"
                     ELSE IF op = "+" /\ l.type = "string" /\ r.type = "string"
                          THEN "string"
                     ELSE IF op = "+" /\ numeric THEN Widest(l.type, r.type)
                     ELSE IF op = "/" /\ numeric
                          THEN IF "double" \in {l.type, r.type}
                                  \/ "float" \in {l.type, r.type}
                               THEN "double" ELSE "float"
                     ELSE IF op \in {"-", "*"} /\ numeric THEN Widest(l.type, r.type)
                     ELSE "Unknown"])
      [] expr_node.type = "StringLiteral" -> [a |-> a, type |-> "string"]
      [] expr_node.type = "CharLiteral" ->
           LET val_str == expr_node.value
               inner_content == Slice(val_str, 1, Len(val_str) - 1)
           IN IF ~(Len(val_str) >= 2 /\ Quoted(val_str))
              THEN [a |-> AddError(a, Err("Malformed CharLiteral node value", val_str, "", "")),
                    type |-> "Unknown"]
              ELSE IF Len(inner_content) = 1 THEN [a |-> a, type |-> "char"]
              ELSE IF Len(inner_content) = 2 /\ CharAt(inner_content, 0) = "\\"
                   THEN IF CharAt(inner_content, 1) \in escapes
                        THEN [a |-> a, type |-> "char"]
                        ELSE [a |-> AddError(a, Err("Unknown escape sequence in char literal",
                                                    val_str, "", "")),
                              type |-> "Unknown"]
              ELSE [a |-> AddError(a, Err("must be a single character or a valid escape sequence",
                                          val_str, "", "")),
                    type |-> "Unknown"]
      [] expr_node.type = "BooleanLiteral" ->
           IF expr_node.value \in BOOLEAN THEN [a |-> a, type |-> "bool"]
           ELSE [a |-> AddError(a, Err("BooleanLiteral node has non-boolean value", "", "", "")),
                 type |-> "Unknown"]
      [] expr_node.type = "UnaryExpr" ->
           LET o == get_expression_type(a, expr_node.operand)
           IN [a |-> o.a,
               type |-> IF expr_node.op = "-" /\ o.type \in numeric_types THEN o.type
                        ELSE "Unknown"]
      [] OTHER -> [a |-> a, type |-> "Unknown"]

\* visit_Declaration if a redeclaration replaced the entry of the name
declaration_replaces_entry(a, node) ==
    LET entered == [a EXCEPT !.declared_vars = @ \cup {node.var_name},
                             !.symbol_table =
                                 [n \in DOMAIN @ \cup {node.var_name} |->
                                     IF n = node.var_name
                                     THEN [type |-> node.var_type, initialized |-> FALSE,
                                           value |-> PyNone,
                                           scope |-> a.current_scope_level]
                                     ELSE @[n]]]
    IN IF node.var_name \in a.declared_vars
       THEN AddError(entered, Err("is already declared", node.var_name, "", ""))
       ELSE entered

sem_visit_Declaration(a, node) ==
    IF node.var_name \in a.declared_vars
    THEN AddError(a, Err("is already declared", node.var_name, "", ""))
    ELSE IF node.var_type \notin supported_types
         THEN AddError(a, Err("Unsupported declaration type", node.var_name,
                              node.var_type, ""))
         ELSE [a EXCEPT !.declared_vars = @ \cup {node.var_name},
                        !.symbol_table =
                            [n \in DOMAIN @ \cup {node.var_name} |->
                                IF n = node.var_name
                                THEN [type |-> node.var_type, initialized |-> FALSE,
                                      value |-> PyNone, scope |-> a.current_scope_level]
                                ELSE @[n]]]

\* lines 85-112 of visit_Assignment: the literal's value.  The text of a
\* float is its lexeme (the lexemes of the model are written as str writes
\* them, like 1.5 and 0.0).
assigned_value_of(expression_node) ==
    LET v == expression_node.value
    IN CASE expression_node.type = "Number" ->
              IF HasDotOrE(v)
              THEN IF ValidFloat(v) THEN PyValue("float", v) ELSE PyNone
              ELSE IF ValidInt(v) THEN PyValue("int", IntText(v)) ELSE PyNone
         [] expression_node.type = "StringLiteral" ->
              PyValue("str", Slice(v, 1, Len(v) - 1))
         [] expression_node.type = "CharLiteral" ->
              IF Len(v) = 3 /\ Quoted(v)
              THEN PyValue("str", IF CharAt(v, 1) = "\\" THEN CharAt(v, 2) ELSE CharAt(v, 1))
              ELSE PyNone
         [] expression_node.type = "BooleanLiteral" ->
              PyValue("bool", IF v THEN "True" ELSE "False")
         [] OTHER -> PyNone

\* is_compatible without the widening to float and double
exact_match_only(declared_type, expr_type) == declared_type = expr_type

\* is_compatible of visit_Assignment
is_compatible(declared_type, expr_type) ==
    \/ declared_type = expr_type
    \/ declared_type = "float" /\ expr_type \in {"int", "float", "double"}
    \/ declared_type = "double" /\ expr_type \in {"int", "float", "double"}

\* py_type_ok of visit_Assignment: bool is a subclass of int
py_type_ok(declared_type, assigned_value) ==
    \/ declared_type = "int" /\ assigned_value.py \in {"int", "bool"}
    \/ declared_type \in {"float", "double"} /\ assigned_value.py \in {"int", "bool", "float"}
    \/ declared_type = "string" /\ assigned_value.py = "str"
    \/ declared_type = "char" /\ assigned_value.py = "str" /\ Len(assigned_value.text) = 1
    \/ declared_type = "bool" /\ assigned_value.py = "bool"

\* self.symbol_table[var_name]["initialized"] = True and ["value"] = value
Store(a, var_name, value) ==
    [a EXCEPT !.symbol_table[var_name].initialized = TRUE,
              !.symbol_table[var_name].value = value]

RECURSIVE sem_visit(_, _)

\* visit(node) for a list if the first diagnostic ended the analysis
visit_unless_error(a, item) == IF a.errors # <<>> THEN a ELSE sem_visit(a, item)

visit_list_until_error(a, node) == ForEach(visit_unless_error, a, node, 1, Len(node))

\* visit(node) for a list
sem_visit_list(a, node) == ForEach(sem_visit, a, node, 1, Len(node))

sem_visit_Program(a, node) == sem_visit_list(a, node.body)

sem_visit_Assignment(a, node) ==
    LET var_name == node.var
        expression_node == node.expr
        a1 == sem_visit(a, expression_node)
        t == get_expression_type(a1, expression_node)
        expr_type == t.type
        assigned_value == assigned_value_of(expression_node)
        bad_char == expression_node.type = "CharLiteral"
                    /\ ~(Len(expression_node.value) = 3 /\ Quoted(expression_node.value))
        a2 == IF bad_char
              THEN AddError(t.a, Err("Invalid char literal format in assignment",
                                     var_name, expression_node.value, ""))
              ELSE t.a
        declared_type == a.symbol_table[var_name].type
        a3 == IF is_compatible(declared_type, expr_type) THEN a2
              ELSE AddError(a2, Err("Type mismatch in assignment", var_name,
                                    expr_type, declared_type))
    IN IF var_name \notin DOMAIN a.symbol_table
       THEN sem_visit(AddError(a, Err("was not declared before assignment", var_name, "", "")),
                      expression_node)
       ELSE InOrder(<<a1, t, a2>>,
                IF expr_type # "Unknown"
                THEN IF assigned_value # PyNone
                     THEN IF py_type_ok(declared_type, assigned_value)
                          THEN Store(a3, var_name, assigned_value)
                          ELSE Store(AddError(a3, Err("is not directly storable", var_name,
                                                      assigned_value.text, declared_type)),
                                     var_name, PyNone)
                     ELSE Store(a3, var_name, PyNone)
                ELSE Store(a2, var_name, PyNone))

sem_visit_ForLoop(a, node) ==
    LET a0 == [a EXCEPT !.current_scope_level = @ + 1]
        a1 == sem_visit(a0, node.init)
        a2 == sem_visit(a1, node.condition)
        a3 == sem_visit(a2, node.update)
        a4 == sem_visit_list(a3, node.body)
    IN InOrder(<<a1, a2, a3, a4>>, [a4 EXCEPT !.current_scope_level = @ - 1])

\* can_compare of visit_Condition
can_compare(left_type, op, right_type) ==
    \/ left_type \in numeric_types /\ right_type \in numeric_types
    \/ left_type = "char" /\ right_type = "char"
    \/ left_type = "string" /\ right_type = "string" /\ op \in {"==", "!="}
    \/ left_type = "bool" /\ right_type = "bool" /\ op \in {"==", "!="}

sem_visit_Condition(a, node) ==
    LET a1 == sem_visit(a, node.left)
        a2 == sem_visit(a1, node.right)
        l == get_expression_type(a2, node.left)
        r == get_expression_type(l.a, node.right)
    IN InOrder(<<a1, a2, l, r>>,
           IF l.type # "Unknown" /\ r.type # "Unknown"
              /\ ~can_compare(l.type, node.op, r.type)
           THEN AddError(r.a, Err("Incompatible types in condition", node.op, l.type, r.type))
           ELSE r.a)

sem_visit_BinaryExpr(a, node) ==
    LET op == node.op
        a1 == sem_visit(a, node.left)
        a2 == sem_visit(a1, node.right)
        l == get_expression_type(a2, node.left)
        r == get_expression_type(l.a, node.right)
        numeric == l.type \in numeric_types /\ r.type \in numeric_types
        a3 == IF numeric THEN r.a
              ELSE AddError(r.a, Err("requires numeric types", op, l.type, r.type))
    IN InOrder(<<a1, a2, l, r>>,
           IF l.type # "Unknown" /\ r.type # "Unknown"
           THEN IF op = "+"
                THEN IF (l.type = "string" /\ r.type = "string") \/ numeric THEN r.a
                     ELSE AddError(r.a, Err("Operator '+' cannot be used between", op,
                                            l.type, r.type))
                ELSE IF op \in {"-", "*", "/"}
                     THEN IF op = "/" /\ node.right.type = "Number"
                             /\ ValidFloat(node.right.value)
                             /\ FloatIsZero(node.right.value)
                          THEN AddError(a3, Err("Division by zero", "", "", ""))
                          ELSE a3
                     ELSE AddError(r.a, Err("Unknown or unsupported binary operator", op,
                                            l.type, r.type))
           ELSE r.a)

sem_visit_UnaryExpr(a, node) ==
    LET a1 == sem_visit(a, node.operand)
        o == get_expression_type(a1, node.operand)
    IN InOrder(<<a1, o>>,
           IF node.op = "-"
           THEN IF o.type \notin {"int", "float", "double"}
                THEN AddError(o.a, Err("Unary operator '-' cannot be applied to type", "",
                                       o.type, ""))
                ELSE o.a
           ELSE AddError(o.a, Err("Unsupported unary operator", node.op, "", "")))

sem_visit_Variable(a, node) ==
    IF node.name \notin DOMAIN a.symbol_table
    THEN AddError(a, Err("used before declaration", node.name, "", ""))
    ELSE a

sem_visit_Number(a, node) == a

sem_visit_StringLiteral(a, node) == a

sem_visit_CharLiteral(a, node) ==
    LET value == node.value
        escaped == CharAt(value, 1) = "\\"
    IN IF ~(Len(value) >= 2 /\ Quoted(value))
       THEN AddError(a, Err("Invalid char literal format", value, "", ""))
       ELSE IF Len(value) = 3 /\ escaped /\ CharAt(value, 2) \notin escapes
            THEN AddError(a, Err("Unknown escape sequence", value, "", ""))
       ELSE IF Len(value) > 3 /\ ~(escaped /\ Len(value) = 4)
                /\ ~(escaped /\ CharAt(value, 2) \in escapes /\ Len(value) = 4
                     /\ CharAt(value, 3) = "'")
            THEN AddError(a, Err("Char literal too long", value, "", ""))
       ELSE a

sem_visit_BooleanLiteral(a, node) ==
    IF node.value \notin BOOLEAN
    THEN AddError(a, Err("Invalid boolean literal value", "", "", ""))
    ELSE a

\* visit(node) for a dict: the visitor named after the node's type; every
\* node type the parser builds has one.
sem_visit(a, node) ==
    LET a0 == [a EXCEPT !.visited = Append(@, node)]
    IN CASE node.type = "Program" -> sem_visit_Program(a0, node)
         [] node.type = "Declaration" -> sem_visit_Declaration(a0, node)
         [] node.type = "Assignment" -> sem_visit_Assignment(a0, node)
         [] node.type = "ForLoop" -> sem_visit_ForLoop(a0, node)
         [] node.type = "Condition" -> sem_visit_Condition(a0, node)
         [] node.type = "BinaryExpr" -> sem_visit_BinaryExpr(a0, node)
         [] node.type = "UnaryExpr" -> sem_visit_UnaryExpr(a0, node)
         [] node.type = "Variable" -> sem_visit_Variable(a0, node)
         [] node.type = "Number" -> sem_visit_Number(a0, node)
         [] node.type = "StringLiteral" -> sem_visit_StringLiteral(a0, node)
         [] node.type = "CharLiteral" -> sem_visit_CharLiteral(a0, node)
         [] node.type = "BooleanLiteral" -> sem_visit_BooleanLiteral(a0, node)
         [] OTHER -> a0

\* analyze(): self.visit(self.ast)
analyze(a, tree) == sem_visit(a, tree)

---------------------------------------------------------------------------
(* The front end as compiler.py runs it: tokenize, stop when there is no   *)
(* token, parse, analyze, stop when there is a diagnostic, generate.       *)

\* the lexical analysis of main
Tokenize ==
    /\ pc = "source"
    /\ LET r == tokenize(source)
       IN /\ tokens' = IF r.raised THEN <<>> ELSE r.tokens
          /\ pc' = IF r.raised THEN "lexical_error" ELSE "tokens"
    /\ UNCHANGED <<ast, generator, stmt_idx, heap, original_tac, input_copy, arg_tac,
                   tac, tac_obj, optimized_tac, source, parser, semantic>>

\* if not token_list: sys.exit(1)
AbortNoTokens ==
    /\ pc = "tokens"
    /\ tokens = <<>>
    /\ pc' = "no_tokens"
    /\ UNCHANGED <<ast, generator, stmt_idx, heap, original_tac, input_copy, arg_tac,
                   tac, tac_obj, optimized_tac, front>>

\* SyntaxAnalyzer(token_list).parse(): ast stays None when it raises
Parse ==
    /\ pc = "tokens"
    /\ tokens # <<>>
    /\ LET r == parse(tokens, NewSyntaxAnalyzer)
       IN /\ parser' = r.p
          /\ ast' = r.node
          /\ pc' = IF r.p.raised THEN "syntax_error" ELSE "parsed"
    /\ UNCHANGED <<generator, stmt_idx, heap, original_tac, input_copy, arg_tac,
                   tac, tac_obj, optimized_tac, source, tokens, semantic>>

\* SemanticAnalyzer(ast).analyze(), and the exit when semantic_errors is
\* not empty
Analyze ==
    /\ pc = "parsed"
    /\ LET a == analyze(NewSemanticAnalyzer, ast)
       IN /\ semantic' = a
          /\ pc' = IF a.errors # <<>> THEN "semantic_errors" ELSE "generate"
    /\ UNCHANGED <<ast, generator, stmt_idx, heap, original_tac, input_copy, arg_tac,
                   tac, tac_obj, optimized_tac, source, tokens, parser>>

---------------------------------------------------------------------------
(* Inputs of the front end.  The parser is given token lists with the      *)
(* kinds its expect calls name (ASSIGN, NUMBER, REL_OP, STRING_LITERAL,    *)
(* CHAR_LITERAL); the lexer is given source texts.                         *)

Kw(v) == <<"KEYWORD", v>>

Id(v) == <<"ID", v>>

Sym(v) == <<"SYMBOL", v>>

Op(v) == <<"OP", v>>

Asg == <<"ASSIGN", "=">>

Numb(v) == <<"NUMBER", v>>

Rel(v) == <<"REL_OP", v>>

\* type name ;
DeclTokens(var_type, name) == <<Kw(var_type), Id(name), Sym(";")>>

\* name = expr ;
AssignTokens(name, expr) == <<Id(name), Asg>> \o expr \o <<Sym(";")>>

\* for ( name = 0 ; name < limit ; name = name + 1 ) { body }
ForTokens(name, limit, body) ==
    <<Kw("for"), Sym("("), Id(name), Asg, Numb("0"), Sym(";"), Id(name), Rel("<")>>
    \o limit
    \o <<Sym(";"), Id(name), Asg, Id(name), Op("+"), Numb("1"), Sym(")"), Sym("{")>>
    \o body \o <<Sym("}")>>

\* the statements the programs are made of
FrontChunks ==
    {DeclTokens("int", "x"),
     DeclTokens("float", "x"),
     DeclTokens("int", "y"),
     DeclTokens("string", "y"),
     <<Kw("int"), Id("x"), Asg, Id("y"), Sym(";")>>,
     AssignTokens("x", <<Numb("2")>>),
     AssignTokens("x", <<Id("y")>>),
     AssignTokens("y", <<Id("x"), Op("+"), Numb("1.5")>>),
     AssignTokens("x", <<Op("-"), Id("y")>>),
     AssignTokens("x", <<Id("y"), Op("/"), Numb("0")>>),
     AssignTokens("x", <<Numb("2"), Op("/"), Numb("0.0")>>),
     AssignTokens("y", <<<<"STRING_LITERAL", "\"s\"">>, Op("+"), Id("y")>>),
     ForTokens("x", <<Numb("3")>>, DeclTokens("int", "x")),
     ForTokens("y", <<Id("x")>>,
               AssignTokens("x", <<Id("y")>>) \o DeclTokens("float", "y"))}

MaxFrontStmts == 3

RECURSIVE ChunkPrograms(_)
ChunkPrograms(n) ==
    IF n = 0 THEN {<<>>}
    ELSE LET shorter == ChunkPrograms(n - 1)
         IN shorter \cup {p \o c : p \in shorter, c \in FrontChunks}

FrontTypes == {"int", "float", "string", "double", "char", "bool"}

\* a literal of each kind
FrontLiterals ==
    {Numb("2"), Numb("1.5"), <<"STRING_LITERAL", "\"s\"">>, <<"CHAR_LITERAL", "'c'">>,
     Kw("true")}

\* t1 a ; t2 b ; a = b ;   and   t a ; a = literal ;
TypedAssignments ==
    {DeclTokens(t1, "a") \o DeclTokens(t2, "b") \o AssignTokens("a", <<Id("b")>>) :
        t1 \in FrontTypes, t2 \in FrontTypes}
    \cup {DeclTokens(t, "a") \o AssignTokens("a", <<l>>) :
            t \in FrontTypes, l \in FrontLiterals}

\* expressions by shape: "v" stands for a variable, named by its rank
\* among the variables of the expression
MaxExprLen == 5

ExprAlphabet == {"v", "-", "+", "*", "(", ")"}

ExprNames == <<"a", "b", "c", "d", "e">>

\* at most MaxNesting opening parentheses in an expression
MaxNesting == 2

ExprShapes ==
    {s \in UNION {[1..n -> ExprAlphabet] : n \in 1..MaxExprLen} :
        Cardinality({i \in 1..Len(s) : s[i] = "("}) <= MaxNesting}

ExprTokens(shape) ==
    [i \in 1..Len(shape) |->
        IF shape[i] = "v"
        THEN Id(ExprNames[Cardinality({j \in 1..i : shape[j] = "v"})])
        ELSE IF shape[i] \in {"(", ")"} THEN Sym(shape[i]) ELSE Op(shape[i])]

ExprPrograms == {AssignTokens("x", ExprTokens(s)) : s \in ExprShapes}

\* well-formed programs cut short, and with one token too many
JunkTokens == {Sym(")"), Sym("}"), Numb("5"), Op("="), Kw("while")}

BasePrograms ==
    {ForTokens("x", <<Numb("3")>>, AssignTokens("y", <<Id("x")>>)),
     <<Kw("int"), Id("x"), Asg, Numb("2"), Sym(";")>>
        \o AssignTokens("x", <<Sym("("), Id("x"), Op("*"), Numb("2"), Sym(")")>>)}

BrokenPrograms ==
    UNION {{SubSeq(b, 1, n) : n \in 1..Len(b)}
           \cup {SubSeq(b, 1, n) \o <<j>> \o SubSeq(b, n + 1, Len(b)) :
                    n \in 0..Len(b), j \in JunkTokens} : b \in BasePrograms}

\* literals the lexeme of which is not a number or not one character
MalformedLiterals == {Numb("1e"), <<"CHAR_LITERAL", "'cd'">>}

\* t x ; x = e ;  with a malformed literal at depth 0, 1 and 2 of e
MalformedPrograms ==
    {DeclTokens(t, "x") \o AssignTokens("x", e) :
        t \in {"int", "char"},
        e \in UNION {{<<l>>,
                      <<Op("-"), l>>,
                      <<l, Op("+"), Numb("2")>>,
                      <<Sym("("), l, Op("+"), Numb("2"), Sym(")"), Op("*"), Numb("3")>>} :
                     l \in MalformedLiterals}}

\* programs with a variable that is named like a temporary
TemporaryNamePrograms ==
    {DeclTokens("int", "t0") \o DeclTokens("int", "x") \o AssignTokens("x", e) :
        e \in {<<Id("t0")>>,
               <<Id("t0"), Op("+"), Numb("1")>>,
               <<Id("x"), Op("*"), Numb("2"), Op("+"), Id("t0")>>}}

\* t1 a ; t2 b ; t3 c ; c = a op b ;  for the numeric types and the four
\* arithmetic operators
ArithmeticPrograms ==
    {DeclTokens(t1, "a") \o DeclTokens(t2, "b") \o DeclTokens(t3, "c")
     \o AssignTokens("c", <<Id("a"), Op(o), Id("b")>>) :
        t1 \in {"int", "float", "double"}, t2 \in {"int", "float", "double"},
        t3 \in {"int", "float", "double"}, o \in {"+", "-", "*", "/"}}

TokenInputs ==
    ChunkPrograms(MaxFrontStmts) \cup TypedAssignments \cup ExprPrograms
    \cup BrokenPrograms \cup MalformedPrograms \cup TemporaryNamePrograms
    \cup ArithmeticPrograms

\* source texts: the text of the scenario, a text with a comment and every
\* short text
ScenarioSource == "int x; x = 2 + 3;"

MaxSourceLen == 3

SourceAlphabet == <<"x", "2", "=", "+", ";", " ", ">", "<", "!", "/", "\n">>

RECURSIVE ShortSources(_)
ShortSources(n) ==
    IF n = 0 THEN {""}
    ELSE LET shorter == ShortSources(n - 1)
         IN shorter \cup {t \o SourceAlphabet[i] : t \in shorter,
                                                   i \in 1..Len(SourceAlphabet)}

\* a statement, a comment to the end of its line, and a second line
CommentedSource == "x=2;// x\nx"

Sources == {ScenarioSource, CommentedSource} \cup ShortSources(MaxSourceLen)

InitFront ==
    /\ \/ /\ pc = "source"
          /\ source \in Sources
          /\ tokens = <<>>
       \/ /\ pc = "tokens"
          /\ source = ""
          /\ tokens \in TokenInputs
    /\ parser = NewSyntaxAnalyzer
    /\ semantic = NewSemanticAnalyzer
    /\ ast = NoNode
    /\ generator = NewGenerator
    /\ stmt_idx = 1
    /\ heap = <<>>
    /\ original_tac = <<>>
    /\ input_copy = <<>>
    /\ arg_tac = <<>>
    /\ tac = <<>>
    /\ tac_obj = 1
    /\ optimized_tac = <<>>

NextFront ==
    \/ Tokenize
    \/ AbortNoTokens
    \/ Parse
    \/ Analyze
    \/ GenerateVisit
    \/ GenerateReturn

SpecFront == InitFront /\ [][NextFront]_vars

---------------------------------------------------------------------------
(* Properties of the front end *)

\* the analysis has run: visit() was dispatched for the Program node
Analyzed == semantic.visited # <<>>

\* The statements of a statement list in program order, those of the loop
\* bodies included, each with the nesting level the analyzer visits it at;
\* a for loop is followed by its init, its update and its body.
RECURSIVE Statements(_, _)
Statements(stmts, level) ==
    IF stmts = <<>> THEN <<>>
    ELSE LET s == Head(stmts)
         IN <<[node |-> s, level |-> level]>>
            \o (IF s.type = "ForLoop"
                THEN <<[node |-> s.init, level |-> level + 1],
                       [node |-> s.update, level |-> level + 1]>>
                     \o Statements(s.body, level + 1)
                ELSE <<>>)
            \o Statements(Tail(stmts), level)

IsDeclaration(s) == s.node.type = "Declaration"

DeclarationsOf(tree) == SelectSeq(Statements(tree.body, 0), IsDeclaration)

\* the diagnostics of one kind about one name
Diagnostics(kind, name) ==
    {i \in 1..Len(semantic.errors) :
        semantic.errors[i].kind = kind /\ semantic.errors[i].name = name}

\* C11: every redeclaration of a declared name, at any nesting level, adds
\* exactly one 'already declared' diagnostic, and the symbol-table entry of
\* the name keeps the type and the scope level of the first declaration.
C11_RedeclarationKeepsFirst ==
    Analyzed =>
        LET decls == DeclarationsOf(ast)
        IN \A i \in 1..Len(decls) :
               LET name == decls[i].node.var_name
                   same == {j \in 1..Len(decls) : decls[j].node.var_name = name}
               IN (\A j \in same : i <= j) =>
                      /\ Cardinality(Diagnostics("is already declared", name))
                             = Cardinality(same) - 1
                      /\ name \in DOMAIN semantic.symbol_table
                      /\ semantic.symbol_table[name].type = decls[i].node.var_type
                      /\ semantic.symbol_table[name].scope = decls[i].level

\* a name declared at the top level is declared again with another type in
\* the body of a for loop
C11_Witness ==
    /\ Analyzed
    /\ LET decls == DeclarationsOf(ast)
       IN \E i, j \in 1..Len(decls) :
              /\ i < j
              /\ decls[i].node.var_name = decls[j].node.var_name
              /\ decls[i].node.var_type # decls[j].node.var_type
              /\ decls[i].level = 0
              /\ decls[j].level > 0

\* the names of the Variable nodes of an expression, from left to right
RECURSIVE VariablesOf(_)
VariablesOf(expr) ==
    CASE expr.type = "Variable" -> <<expr.name>>
      [] expr.type = "BinaryExpr" -> VariablesOf(expr.left) \o VariablesOf(expr.right)
      [] expr.type = "UnaryExpr" -> VariablesOf(expr.operand)
      [] OTHER -> <<>>

Referenced(names) == [i \in 1..Len(names) |-> [event |-> "reference", name |-> names[i]]]

\* The declarations and the references in expressions of a statement list,
\* in program order: a declaration comes before its initializer, a for
\* loop is its init, its condition, its update and its body.
RECURSIVE Events(_)
Events(stmts) ==
    IF stmts = <<>> THEN <<>>
    ELSE LET s == Head(stmts)
         IN (CASE s.type = "Declaration" ->
                    <<[event |-> "declaration", name |-> s.var_name]>>
                    \o (IF "initializer" \in DOMAIN s
                        THEN Referenced(VariablesOf(s.initializer)) ELSE <<>>)
               [] s.type = "Assignment" -> Referenced(VariablesOf(s.expr))
               [] s.type = "ForLoop" ->
                    Referenced(VariablesOf(s.init.expr)
                               \o VariablesOf(s.condition.left)
                               \o VariablesOf(s.condition.right)
                               \o VariablesOf(s.update.expr))
                    \o Events(s.body))
            \o Events(Tail(stmts))

\* the references to name that no declaration of name precedes
EarlyReferences(events, name) ==
    {i \in 1..Len(events) :
        /\ events[i] = [event |-> "reference", name |-> name]
        /\ \A j \in 1..(i - 1) : events[j] # [event |-> "declaration", name |-> name]}

\* C12: a variable referenced in an expression before any declaration of it
\* in program order has a 'used before declaration' diagnostic, and a
\* variable whose references all follow a declaration of it has none.
C12_UsedBeforeDeclaration ==
    Analyzed =>
        LET events == Events(ast.body)
        IN \A i \in 1..Len(events) :
               events[i].event = "reference" =>
                   (Diagnostics("used before declaration", events[i].name) # {}
                        <=> EarlyReferences(events, events[i].name) # {})

IsStatement(node) == node.type \in {"Declaration", "Assignment", "ForLoop"}

NodeOf(s) == s.node

\* C13: the analysis visits every statement of the program and of every
\* loop body, in program order, whatever diagnostics the statements before
\* it produced, and the right-hand expression of every assignment is
\* visited right after the assignment, also when the target is undeclared.
C13_EveryStatementVisited ==
    Analyzed =>
        LET stmts == Statements(ast.body, 0)
            visited == semantic.visited
        IN /\ SelectSeq(visited, IsStatement) = [i \in 1..Len(stmts) |-> NodeOf(stmts[i])]
           /\ \A k \in 1..Len(visited) :
                  visited[k].type = "Assignment" =>
                      /\ k < Len(visited)
                      /\ visited[k + 1] = visited[k].expr

\* an assignment to an undeclared target whose right-hand side names an
\* undeclared variable is followed by a statement that has a diagnostic too
C13_Witness ==
    /\ Analyzed
    /\ \E i \in 1..Len(semantic.errors) :
           /\ semantic.errors[i].kind = "was not declared before assignment"
           /\ i + 1 < Len(semantic.errors)
           /\ semantic.errors[i + 1].kind = "used before declaration"

\* the diagnostics a node adds about the types of its operands; they name
\* the operand types in `left` and `right`
TypeDiagnostics ==
    {"Type mismatch in assignment", "Incompatible types in condition",
     "Operator '+' cannot be used between", "requires numeric types",
     "Unknown or unsupported binary operator",
     "Unary operator '-' cannot be applied to type"}

\* C14: a node whose operand has the inferred type Unknown adds no type
\* diagnostic of its own, so no type diagnostic names the type Unknown.
C14_UnknownSuppressesChecks ==
    Analyzed =>
        \A i \in 1..Len(semantic.errors) :
            semantic.errors[i].kind \in TypeDiagnostics =>
                "Unknown" \notin {semantic.errors[i].left, semantic.errors[i].right}

\* the type of the first declaration of name before statement k, or Unknown
TypeBefore(stmts, k, name) ==
    LET earlier == {j \in 1..(k - 1) :
                       /\ stmts[j].node.type = "Declaration"
                       /\ stmts[j].node.var_name = name}
    IN IF earlier = {} THEN "Unknown"
       ELSE stmts[CHOOSE j \in earlier : \A i \in earlier : j <= i].node.var_type

\* the rule of the claim: equal types, or a float or double target and an
\* int, float or double source
Accepted(target_type, source_type) ==
    \/ target_type = source_type
    \/ target_type \in {"float", "double"} /\ source_type \in {"int", "float", "double"}

\* the assignments name = variable of stmts, target and source declared
\* before, that the rule does not accept
Rejected(stmts, name) ==
    {k \in 1..Len(stmts) :
        /\ stmts[k].node.type = "Assignment"
        /\ stmts[k].node.var = name
        /\ TypeBefore(stmts, k, name) # "Unknown"
        /\ TypeBefore(stmts, k, stmts[k].node.expr.name) # "Unknown"
        /\ ~Accepted(TypeBefore(stmts, k, name),
                     TypeBefore(stmts, k, stmts[k].node.expr.name))}

\* every assignment of the program assigns a variable
AssignsVariables(stmts) ==
    \A k \in 1..Len(stmts) :
        stmts[k].node.type = "Assignment" => stmts[k].node.expr.type = "Variable"

\* C15: an assignment of a declared variable to a declared variable adds
\* exactly one 'Type mismatch' diagnostic when the types are neither equal
\* nor a float or double target with an int, float or double source, and
\* none otherwise.
C15_TypeCompatibility ==
    Analyzed =>
        LET stmts == Statements(ast.body, 0)
        IN AssignsVariables(stmts) =>
               \A k \in 1..Len(stmts) :
                   stmts[k].node.type = "Assignment" =>
                       Cardinality(Diagnostics("Type mismatch in assignment",
                                               stmts[k].node.var))
                           = Cardinality(Rejected(stmts, stmts[k].node.var))

\* a double variable is assigned to an int variable
C15_Witness ==
    /\ Analyzed
    /\ LET stmts == Statements(ast.body, 0)
       IN /\ AssignsVariables(stmts)
          /\ \E k \in 1..Len(stmts) :
                 /\ stmts[k].node.type = "Assignment"
                 /\ TypeBefore(stmts, k, stmts[k].node.var) = "int"
                 /\ TypeBefore(stmts, k, stmts[k].node.expr.name) = "double"
                 /\ Diagnostics("Type mismatch in assignment", stmts[k].node.var) # {}

\* a division whose right operand is a numeric literal equal to zero
DividesByZeroLiteral(node) ==
    /\ node.type = "BinaryExpr"
    /\ node.op = "/"
    /\ node.right.type = "Number"
    /\ ValidFloat(node.right.value)
    /\ FloatIsZero(node.right.value)

\* C16: every visited division by a numeric literal equal to zero adds a
\* 'Division by zero' diagnostic, whatever its left operand is.
C16_DivisionByZero ==
    Analyzed =>
        Cardinality({i \in 1..Len(semantic.errors) :
                        semantic.errors[i].kind = "Division by zero"})
            = Cardinality({k \in 1..Len(semantic.visited) :
                             DividesByZeroLiteral(semantic.visited[k])})

\* C17: for a semantically accepted program the generator emits exactly
\* one ASSIGN into the target for every Assignment node, whatever the kind
\* of its right-hand expression: the ASSIGN instructions into a variable are
\* as many as the assignments to it.
C17_OneAssignPerAssignment ==
    (Analyzed /\ pc = "generated") =>
        LET stmts == Statements(ast.body, 0)
            code == generator.tac_code
        IN \A k \in 1..Len(stmts) :
               stmts[k].node.type = "Assignment" =>
                   Cardinality({i \in 1..Len(code) :
                                   /\ code[i].op = "ASSIGN"
                                   /\ code[i].result = Str(stmts[k].node.var)})
                       = Cardinality({j \in 1..Len(stmts) :
                                         /\ stmts[j].node.type = "Assignment"
                                         /\ stmts[j].node.var = stmts[k].node.var})

\* parse() has returned or raised
ParseEnded == pc \in {"syntax_error", "parsed"}

Additive(e) == e.type = "BinaryExpr" /\ e.op \in {"+", "-"}

Multiplicative(e) == e.type = "BinaryExpr" /\ e.op \in {"*", "/"}

\* The tree of an expression written without parentheses: the right operand
\* of an additive node is not additive, the operands of a multiplicative
\* node are not additive and its right operand is not multiplicative, and
\* the operand of a unary minus is no binary node.
RECURSIVE Layered(_)
Layered(e) ==
    CASE Additive(e) -> /\ ~Additive(e.right)
                        /\ Layered(e.left)
                        /\ Layered(e.right)
      [] Multiplicative(e) -> /\ ~Additive(e.left)
                              /\ ~Additive(e.right)
                              /\ ~Multiplicative(e.right)
                              /\ Layered(e.left)
                              /\ Layered(e.right)
      [] e.type = "UnaryExpr" -> e.operand.type # "BinaryExpr" /\ Layered(e.operand)
      [] OTHER -> TRUE

\* the tokens of a tree from left to right, without parentheses
RECURSIVE Spelled(_)
Spelled(e) ==
    CASE e.type = "BinaryExpr" -> Spelled(e.left) \o <<Op(e.op)>> \o Spelled(e.right)
      [] e.type = "UnaryExpr" -> <<Op(e.op)>> \o Spelled(e.operand)
      [] e.type = "Variable" -> <<Id(e.name)>>
      [] OTHER -> <<>>

IsParenthesis(t) == t \in {Sym("("), Sym(")")}

NoParenthesis(t) == ~IsParenthesis(t)

\* the parser has accepted x = expression ; and expression is tree
ParsedAs(expression, tree) ==
    /\ tokens = AssignTokens("x", expression)
    /\ pc = "parsed"
    /\ ast = Program(<<Assignment("x", tree)>>)

\* C19: additive operators bind loosest, multiplicative operators tighter,
\* unary minus, parentheses and atoms tightest, and both binary levels
\* associate to the left.  The tree of an accepted x = expression ; spells
\* the expression, it is layered in this way when the expression has no
\* parentheses, and a - b - c, a + b * c and - a * b give the trees
\* (a - b) - c, a + (b * c) and (- a) * b.
C19_PrecedenceAndAssociativity ==
    /\ (pc = "parsed" /\ tokens \in ExprPrograms) =>
           LET expression == SubSeq(tokens, 3, Len(tokens) - 1)
               tree == ast.body[1].expr
           IN /\ Len(ast.body) = 1
              /\ Spelled(tree) = SelectSeq(expression, NoParenthesis)
              /\ (\A i \in 1..Len(expression) : NoParenthesis(expression[i]))
                     => Layered(tree)
    /\ \A operators \in {<<"-", "-">>, <<"+", "*">>} :
           (ParseEnded /\ tokens = AssignTokens("x", <<Id("a"), Op(operators[1]), Id("b"),
                                                     Op(operators[2]), Id("c")>>))
               => ParsedAs(SubSeq(tokens, 3, Len(tokens) - 1),
                           IF operators[2] = "*"
                           THEN BinaryExpr("+", Variable("a"),
                                           BinaryExpr("*", Variable("b"), Variable("c")))
                           ELSE BinaryExpr("-", BinaryExpr("-", Variable("a"), Variable("b")),
                                           Variable("c")))
    /\ (ParseEnded /\ tokens = AssignTokens("x", <<Op("-"), Id("a"), Op("*"), Id("b")>>))
           => ParsedAs(SubSeq(tokens, 3, Len(tokens) - 1),
                       BinaryExpr("*", UnaryExpr("-", Variable("a")), Variable("b")))

\* a - b - c has been parsed
C19_Witness ==
    ParsedAs(<<Id("a"), Op("-"), Id("b"), Op("-"), Id("c")>>,
             BinaryExpr("-", BinaryExpr("-", Variable("a"), Variable("b")), Variable("c")))

\* the tokens the parser needs for the text of the scenario
ScenarioTokens ==
    <<Kw("int"), Id("x"), Sym(";"), Id("x"), Asg, Numb("2"), Op("+"), Numb("3"), Sym(";")>>

\* C20: the lexer turns the text `int x; x = 2 + 3;` into the tokens
\* (KEYWORD,int) (ID,x) (SYMBOL,;) (ID,x) (ASSIGN,=) (NUMBER,2) (OP,+)
\* (NUMBER,3) (SYMBOL,;), and the parser accepts them.
C20_ScenarioTokens ==
    (source = ScenarioSource /\ pc # "source") =>
        /\ tokens = ScenarioTokens
        /\ pc \notin {"lexical_error", "no_tokens", "syntax_error"}

\* the relational operators of the language
RelationalOperators == {"==", "!=", "<=", ">=", "<", ">"}

\* C21: each of the texts ==, !=, <= and >= is emitted by the lexer as one
\* single token and never as two one-character tokens, and a lone < or > is
\* emitted as one token.
C21_RelationalOperatorsAreOneToken ==
    (pc # "source" /\ source \in RelationalOperators) =>
        /\ pc # "lexical_error"
        /\ Len(tokens) = 1
        /\ tokens[1][2] = source

\* the text with every comment removed: the characters from a // up to the
\* end of that line
RECURSIVE Uncommented(_, _, _)
Uncommented(code, pos, in_comment) ==
    IF pos >= Len(code) THEN ""
    ELSE LET c == CharAt(code, pos)
         IN IF in_comment
            THEN IF c = "\n" THEN c \o Uncommented(code, pos + 1, FALSE)
                 ELSE Uncommented(code, pos + 1, TRUE)
            ELSE IF Slice(code, pos, pos + 2) = "//"
                 THEN Uncommented(code, pos + 2, TRUE)
                 ELSE c \o Uncommented(code, pos + 1, FALSE)

\* C22: comments are discarded, the token sequence of a text with
\* single-line comments equals the token sequence of the same text with the
\* comments removed.
C22_CommentsDiscarded ==
    pc # "source" /\ source # "" =>
        LET plain == tokenize(Uncommented(source, 0, FALSE))
        IN /\ (pc = "lexical_error") = plain.raised
           /\ ~plain.raised => tokens = plain.tokens

---------------------------------------------------------------------------
(* Claims about optimize() as a whole and about its passes, continued *)

\* the operands of an instruction that name something
OperandsOf(instr) == { v \in {instr.arg1, instr.arg2} : IsStr(v) }

\* no pass has a remaining opportunity in code: no arithmetic on two
\* literals, no use of a variable that is assigned a literal exactly once, no
\* repeated (op, arg1, arg2) key, no MUL by the literal 2, and the backward
\* liveness pass removes nothing
NoOpportunity(code) ==
    /\ \A i \in 1..Len(code) :
           /\ ~(code[i].op \in ArithOps /\ IsNumber(code[i].arg1) /\ IsNumber(code[i].arg2))
           /\ \A v \in OperandsOf(code[i]) : ~AssignedLiteralOnce(code, v)
           /\ code[i].op \in ArithOps => EarlierWithKey(code, i) = {}
           /\ ~(code[i].op = "MUL" /\ code[i].arg2 = Num(2))
    /\ BackwardLiveness(code) = code

\* TACOptimizer(code).optimize() as a value: the five passes in their order
Optimized(code) ==
    LET folded == constant_folding(code, [i \in 1..Len(code) |-> i])
        propagated == constant_propagation(folded.heap, folded.tac)
        eliminated == common_subexpression_elimination(propagated.heap, propagated.tac)
        reduced == strength_reduction(eliminated.heap, eliminated.tac)
        done == dead_code_elimination(reduced.heap, reduced.tac)
    IN Deref(done.heap, done.tac)

\* C23: for an instruction sequence in which no pass has a remaining
\* opportunity, optimize returns a sequence equal to its input, and optimize
\* applied to that result returns an equal sequence again.
C23_NoOpportunityNoChange ==
    (pc = "done" /\ NoOpportunity(input_copy)) =>
        /\ Deref(heap, optimized_tac) = input_copy
        /\ Optimized(Deref(heap, optimized_tac)) = input_copy

\* an ASSIGN to var stands before position i of code
AssignedBefore(code, i, var) == \E j \in AssignsTo(code, var) : j < i

\* C24: constant propagation substitutes a value only into operands of
\* instructions that come later than the ASSIGN that defines the substituted
\* variable; the operands of earlier instructions and of the defining ASSIGN
\* itself are left unchanged.
C24_PropagatesOnlyForward ==
    pc = "propagated" =>
        LET in == Deref(heap, arg_tac)
            out == Deref(heap, tac)
        IN \A i \in 1..Len(in) :
               /\ out[i].arg1 # in[i].arg1 => AssignedBefore(in, i, in[i].arg1)
               /\ out[i].arg2 # in[i].arg2 => AssignedBefore(in, i, in[i].arg2)

---------------------------------------------------------------------------
(* Properties of the front end, continued *)

IsExpression(node) ==
    node.type \in {"Number", "Variable", "BinaryExpr", "UnaryExpr", "StringLiteral",
                   "CharLiteral", "BooleanLiteral"}

\* the wordings of the diagnostics about a literal that is not well formed
LiteralDiagnosticKinds ==
    {"Invalid number format", "Malformed CharLiteral node value",
     "Unknown escape sequence in char literal",
     "must be a single character or a valid escape sequence",
     "BooleanLiteral node has non-boolean value"}

\* the visited nodes that are literals of value v
LiteralNodes(v) ==
    {k \in 1..Len(semantic.visited) :
        /\ semantic.visited[k].type \in {"Number", "CharLiteral", "BooleanLiteral"}
        /\ semantic.visited[k].value = v}

\* C25: get_expression_type is pure: called for any expression node of the
\* analyzed program it changes neither the diagnostics nor the symbol table,
\* and the diagnostics about a malformed literal are not more than the
\* occurrences of the literal, however many enclosing nodes infer the type of
\* a subtree that contains it.
C25_TypeInferenceIsPure ==
    Analyzed =>
        /\ \A k \in 1..Len(semantic.visited) :
               IsExpression(semantic.visited[k]) =>
                   get_expression_type(semantic, semantic.visited[k]).a = semantic
        /\ \A i \in 1..Len(semantic.errors) :
               semantic.errors[i].kind \in LiteralDiagnosticKinds =>
                   Cardinality(Diagnostics(semantic.errors[i].kind, semantic.errors[i].name))
                       <= Cardinality(LiteralNodes(semantic.errors[i].name))

---------------------------------------------------------------------------
(* Claims about the pipeline, continued *)

\* LABEL, GOTO and the conditional jumps
IsControl(instr) == instr.op = "LABEL" \/ IsJump(instr.op)

\* C26: optimize never removes or reorders a control-flow instruction:
\* the LABEL, GOTO and conditional-jump instructions of the generated
\* sequence are those of the optimized sequence, in the same order.
C26_ControlFlowRetained ==
    pc = "done" =>
        SelectSeq(Deref(heap, optimized_tac), IsControl)
            = SelectSeq(generator.tac_code, IsControl)

---------------------------------------------------------------------------
(* Properties of the front end, continued: declarations with initializer *)

\* the statements with every  T x = e;  written as  T x;  x = e;
RECURSIVE Split(_)
Split(stmts) ==
    IF stmts = <<>> THEN <<>>
    ELSE LET s == Head(stmts)
         IN (IF s.type = "Declaration" /\ "initializer" \in DOMAIN s
             THEN <<Declaration(s.var_type, s.var_name),
                    Assignment(s.var_name, s.initializer)>>
             ELSE IF s.type = "ForLoop"
                  THEN <<ForLoop(s.init, s.condition, s.update, Split(s.body))>>
                  ELSE <<s>>)
            \o Split(Tail(stmts))

\* C27: a declaration with an initializer, T x = e;, is analyzed and
\* lowered exactly like T x; followed by x = e;: the same diagnostics, the
\* same symbol table (x marked initialized) and the same instructions,
\* ending in an ASSIGN to x.
C27_InitializerIsAssignment ==
    Analyzed =>
        LET split == Program(Split(ast.body))
            separate == analyze(NewSemanticAnalyzer, split)
        IN /\ semantic.errors = separate.errors
           /\ semantic.symbol_table = separate.symbol_table
           /\ pc = "generated" =>
                  generator.tac_code = visit_Program(NewGenerator, split).g.tac_code

---------------------------------------------------------------------------
(* Claims about the pipeline, continued: generated names *)

\* the lexer reads name as one identifier
IsIdentifier(name) ==
    LET r == tokenize(name) IN ~r.raised /\ r.tokens = <<<<"ID", name>>>>

\* C28: no name new_temp or new_label has returned is a text the lexer
\* reads as an identifier, and no generated name is among the variables
\* whose value constant propagation substitutes by name.
C28_GeneratedNamesApart ==
    /\ pc \in {"generate", "generated"} =>
           \A k \in 1..Len(generator.returned) : ~IsIdentifier(generator.returned[k])
    /\ pc = "folded" =>
           \A k \in 1..Len(generator.returned) :
               Str(generator.returned[k]) \notin DOMAIN const_vals_of(heap, tac)

---------------------------------------------------------------------------
(* Properties of the front end, continued: the generated sequence *)

\* the names new_temp has returned
TemporaryNames ==
    {generator.returned[k] : k \in {j \in 1..Len(generator.returned) :
                                       SubSeq(generator.returned[j], 1, 1) = "t"}}

\* the positions before i of the instructions whose result is v
DefinedBefore(code, i, v) == {j \in 1..(i - 1) : code[j].result = v}

\* C29: in the sequence generated from a semantically accepted program,
\* every temporary that is arg1 or arg2 of an instruction is the result of
\* exactly one instruction that comes earlier in the sequence.
C29_TemporariesDefinedOnceBefore ==
    (Analyzed /\ pc = "generated") =>
        LET code == generator.tac_code
        IN \A i \in 1..Len(code) : \A n \in TemporaryNames :
               Str(n) \in {code[i].arg1, code[i].arg2} =>
                   Cardinality(DefinedBefore(code, i, Str(n))) = 1

---------------------------------------------------------------------------
(* Properties of the front end, continued: the type of an arithmetic       *)
(* expression                                                              *)

\* int < float < double
Rank(t) == CASE t = "int" -> 1 [] t = "float" -> 2 [] t = "double" -> 3

Wider(left_type, right_type) ==
    IF Rank(left_type) >= Rank(right_type) THEN left_type ELSE right_type

\* the visited assignments  target = left op right  of two variables of
\* numeric type to a declared target that is assigned once
ArithmeticAssignments ==
    {k \in 1..Len(semantic.visited) :
        LET n == semantic.visited[k]
        IN /\ n.type = "Assignment"
           /\ n.var \in DOMAIN semantic.symbol_table
           /\ Cardinality({j \in 1..Len(semantic.visited) :
                              /\ semantic.visited[j].type = "Assignment"
                              /\ semantic.visited[j].var = n.var}) = 1
           /\ n.expr.type = "BinaryExpr"
           /\ n.expr.op \in {"+", "-", "*", "/"}
           /\ n.expr.left.type = "Variable"
           /\ n.expr.right.type = "Variable"
           /\ get_variable_type(semantic, n.expr.left.name) \in numeric_types
           /\ get_variable_type(semantic, n.expr.right.name) \in numeric_types}

\* the type of the division: double when an operand is float or double,
\* float for two int operands
Quotient(left_type, right_type) ==
    IF Wider(left_type, right_type) = "int" THEN "float" ELSE "double"

\* the expression of assignment k has type expected(left type, right type),
\* and the assignment has a 'Type mismatch' diagnostic exactly if the
\* target does not accept that type
TypedAs(k, expected(_, _)) ==
    LET n == semantic.visited[k]
        type == expected(get_variable_type(semantic, n.expr.left.name),
                         get_variable_type(semantic, n.expr.right.name))
    IN /\ get_expression_type(semantic, n.expr).type = type
       /\ (Diagnostics("Type mismatch in assignment", n.var) = {})
              = Accepted(get_variable_type(semantic, n.var), type)

\* C30 as stated: each of +, -, * and / on two numeric operands has the
\* wider of the two operand types (int < float < double), so that an
\* expression over two int operands is int and is assigned to an int
\* variable without a type-mismatch diagnostic.
C30_ArithmeticTypeIsWider ==
    Analyzed => \A k \in ArithmeticAssignments : TypedAs(k, Wider)

\* C30 as amended: +, - and * on two numeric operands have the wider of the
\* two operand types; / has the type double when an operand is float or
\* double and float when both are int, so that the quotient of two int
\* operands is not assignable to an int variable.
C30_ArithmeticTypeWiderButQuotient ==
    Analyzed =>
        \A k \in ArithmeticAssignments :
            IF semantic.visited[k].expr.op = "/" THEN TypedAs(k, Quotient)
            ELSE TypedAs(k, Wider)

\* the quotient of two int variables was assigned to an int variable and
\* reported as a type mismatch
C30_Witness ==
    /\ Analyzed
    /\ \E k \in ArithmeticAssignments :
           LET n == semantic.visited[k]
           IN /\ n.expr.op = "/"
              /\ get_variable_type(semantic, n.expr.left.name) = "int"
              /\ get_variable_type(semantic, n.expr.right.name) = "int"
              /\ get_variable_type(semantic, n.var) = "int"
              /\ Diagnostics("Type mismatch in assignment", n.var) # {}

====
